---- MODULE Spec2Model ----
(***************************************************************************)
(* Model of the RDFM artifact GUI's process runner (CLIExecutor), of the   *)
(* Docker container artifact pipeline (DockerCreator) and of the part of   *)
(* the main window (ArtifactTool) that polls the event queue and owns the  *)
(* cancel button.                                                          *)
(*                                                                         *)
(* Threads: the UI thread (submissions, cancel button, queue poll) and one *)
(* worker thread per build or command.  A worker is a job slot j with a    *)
(* program counter pc[j]; each worker action is one stretch of code        *)
(* between two accesses to the state shared with the other threads.        *)
(***************************************************************************)
EXTENDS Integers, Sequences, FiniteSets, TLC

\* ------------------------------------------------------------------ bounds
MaxJobs == 2        \* job slots (worker threads alive at the same time)
MaxImages == 2      \* images listed in one request
MaxCancels == 2     \* cancel requests the executor accepts during one job
MaxPending == 1     \* events left unpolled in the queue when a job is submitted
MaxLines == 1       \* lines a command writes to its pipes

Jobs == 1..MaxJobs

\* ------------------------------------------------------- program constants
SIGTERM == 15
SIGKILL == 9
SIGPIPE == 13

\* ------------------------------------------------------------------ strings
\* A string is a tuple of one-character strings.
WS == {" "}

RECURSIVE lstrip(_)
lstrip(s) == IF s # <<>> /\ Head(s) \in WS THEN lstrip(Tail(s)) ELSE s

RECURSIVE rstrip(_)
rstrip(s) ==
    IF s # <<>> /\ s[Len(s)] \in WS THEN rstrip(SubSeq(s, 1, Len(s) - 1)) ELSE s

strip(s) == rstrip(lstrip(s))

\* The characters the artifact name may contain: the complement of the
\* pattern [^a-zA-Z0-9\._].
AllowedChars == {"a", "Z", "0", ".", "_"}

\* re.search(forbidden_pattern, s): some character of s is outside the class.
re_search_forbidden(s) == \E i \in 1..Len(s) : s[i] \notin AllowedChars

\* ----------------------------------------------------------------- requests
ImageTypes == {"file", "docker"}
ImageSources == {<<"i">>}
ImageRefs == [type : ImageTypes, source : ImageSources]

RECURSIVE SeqsUpTo(_, _)
SeqsUpTo(S, n) ==
    IF n = 0 THEN {<<>>}
    ELSE LET shorter == SeqsUpTo(S, n - 1)
         IN  shorter \cup {Append(s, x) : s \in {t \in shorter : Len(t) = n - 1}, x \in S}

ImageLists == SeqsUpTo(ImageRefs, MaxImages)

\* What the user may have typed in a text field of the form.
FieldInputs == {<<>>, <<" ">>, <<"a">>}
ArtifactNameInputs == FieldInputs \cup {<<"a", "/">>}

\* The form at the moment "Create Docker Artifact" is pressed, with the one
\* fact about the filesystem that the handler reads (does the compose file
\* exist).
Form(app_name, compose_file, artifact_name, device_type, images, exists) ==
    [app_name |-> app_name, compose_file |-> compose_file,
     artifact_name |-> artifact_name, device_type |-> device_type,
     docker_images |-> images, compose_exists |-> exists,
     additional_files |-> <<>>]

TextFields == {"app_name", "compose_file", "artifact_name", "device_type"}

\* The forms of the builds: every image list, the text fields filled in.
FilledForms == {Form(<<"a">>, <<"a">>, <<"a">>, <<"a">>, l, TRUE) : l \in ImageLists}
Requests == FilledForms

\* The forms of the submission handler: a filled-in form of one image, with
\* one text field changed, the image list emptied or the compose file absent.
OneImage == Form(<<"a">>, <<"a">>, <<"a">>, <<"a">>,
                 <<[type |-> "docker", source |-> <<"i">>]>>, TRUE)
FormRequests ==
    {[OneImage EXCEPT ![f] = v] : f \in TextFields, v \in FieldInputs}
    \cup {[OneImage EXCEPT !.artifact_name = v] : v \in ArtifactNameInputs}
    \cup {[OneImage EXCEPT !.docker_images = <<>>]}
    \cup {[OneImage EXCEPT !.compose_exists = FALSE]}

\* ---------------------------------------------------------------- processes
ProcKinds == {"docker", "gzip", "tool", "cmd"}
NotStarted == [st |-> "none", rc |-> 0]
Running == [st |-> "running", rc |-> 0]
Exited(rc) == [st |-> "exited", rc |-> rc]
NoProcs == [k \in ProcKinds |-> NotStarted]

\* A process handle (subprocess.Popen object); None is the absent handle.
None == [job |-> 0, kind |-> "none"]
Handle(j, k) == [job |-> j, kind |-> k]

\* ------------------------------------------------------------------- events
Ev(type, data) == <<type, data>>
command_finished == Ev("command_finished", "")
command_started == Ev("command_started", "")
cancel_requested_ev == Ev("cancel_requested", "")

\* The events whose handling in process_output_queue changes state other
\* than the text of a widget.
UIEvents == {command_started, cancel_requested_ev, command_finished}

RECURSIVE FilterUI(_)
FilterUI(evs) ==
    IF evs = <<>> THEN <<>>
    ELSE IF Head(evs) \in UIEvents THEN <<Head(evs)>> \o FilterUI(Tail(evs))
         ELSE FilterUI(Tail(evs))

RECURSIVE Count(_, _)
Count(evs, e) ==
    IF evs = <<>> THEN 0
    ELSE (IF Head(evs) = e THEN 1 ELSE 0) + Count(Tail(evs), e)

Has(evs, e) == \E i \in 1..Len(evs) : evs[i] = e

VARIABLES
    \* CLIExecutor
    current_process,    \* the tracked process handle, or None
    is_running,
    cancel_requested,
    process_lock,       \* the thread that holds the lock: a job, or Free
    output_queue,       \* the UI events put and not yet polled, oldest first
    \* ArtifactTool (UI thread)
    cancel_button,      \* [visible, text]
    presses,            \* cancel requests accepted since the last submission
    last_signal,        \* the signal the last accepted cancel request sent, or 0
    last_submit,        \* what the last "Create Docker Artifact" press did
    call,               \* a function called on its own: [fn, args, ret]
    form_images,        \* self.docker_images of the form
    docker_images_listbox,  \* the items the form displays, each with the add that made it
    added,              \* the add operations so far: how many, and those not removed
    compose_service_count,  \* the services counted in the compose file
    docker_images_warning_label,  \* the text of the warning under the image list
    docker_files_listbox,  \* the extra files the form lists
    \* one worker thread per job slot
    pc,                 \* where the worker is
    docker_images,      \* params["docker_images"] of the build
    params,             \* its app_name, compose_file and additional_files
    index,              \* the manifests generated (inner, outer), or NoIndex
    archive,            \* the entries of the tarball written, in order
    temp_dir,           \* the local temp_dir is set (not None)
    workspace,          \* the directory temp_dir names exists on disk
    image_paths,        \* the images resolved so far
    process,            \* the local variable `process` of execute()
    procs,              \* the external processes the worker has started
    artifact,           \* the artifact tool has written the output file
    emitted,            \* every event put on the queue for this job, in order
    cancel_in_export,   \* a cancel was accepted while this job's export was registered
    cancel_issued,      \* cancel_command was called while this build was running
    unlocked_access     \* the worker has read current_process without the lock

execVars == <<current_process, is_running, cancel_requested, process_lock>>
uiVars == <<cancel_button, presses, last_signal, last_submit, call,
            form_images, docker_images_listbox, added,
            compose_service_count, docker_images_warning_label,
            docker_files_listbox>>
jobVars == <<pc, docker_images, params, index, archive, temp_dir, workspace,
             image_paths, process, procs, artifact, emitted, cancel_in_export,
             cancel_issued, unlocked_access>>
vars == <<current_process, is_running, cancel_requested, process_lock,
          output_queue,
          cancel_button, presses, last_signal, last_submit, call,
          form_images, docker_images_listbox, added,
          compose_service_count, docker_images_warning_label,
          docker_files_listbox,
          pc, docker_images, params, index, archive, temp_dir, workspace,
          image_paths, process, procs, artifact, emitted, cancel_in_export,
          cancel_issued, unlocked_access>>

NoSubmit == [invalid |-> FALSE, outcome |-> "none"]
NoCall == [fn |-> "", args |-> <<>>, ret |-> <<>>, returned |-> FALSE]
NoParams == [app_name |-> <<>>, compose_file |-> <<>>, additional_files |-> <<>>]
NoIndex == [inner |-> <<>>, outer |-> <<>>]
NoAdds == [count |-> 0, surviving |-> <<>>]
NoWarning == <<>>
Free == 0

\* The program with nothing started and the image list and the extra-file
\* list of the form as given, but for `call`.
ConstructedWith(images, files) ==
    /\ current_process = None
    /\ is_running = FALSE
    /\ cancel_requested = FALSE
    /\ process_lock = Free
    /\ output_queue = <<>>
    /\ cancel_button = [visible |-> FALSE, text |-> "Cancel"]
    /\ presses = 0
    /\ last_signal = 0
    /\ last_submit = NoSubmit
    /\ form_images = images
    /\ docker_images_listbox =
          [i \in 1..Len(images) |-> [text |-> images[i].source, op |-> i]]
    /\ added = [count |-> Len(images),
                surviving |-> [i \in 1..Len(images) |->
                                  [op |-> i, type |-> images[i].type,
                                   source |-> images[i].source]]]
    /\ compose_service_count = 0
    /\ docker_images_warning_label = NoWarning
    /\ docker_files_listbox = files
    /\ pc = [j \in Jobs |-> "idle"]
    /\ docker_images = [j \in Jobs |-> <<>>]
    /\ params = [j \in Jobs |-> NoParams]
    /\ index = [j \in Jobs |-> NoIndex]
    /\ archive = [j \in Jobs |-> <<>>]
    /\ temp_dir = [j \in Jobs |-> FALSE]
    /\ workspace = [j \in Jobs |-> FALSE]
    /\ image_paths = [j \in Jobs |-> <<>>]
    /\ process = [j \in Jobs |-> None]
    /\ procs = [j \in Jobs |-> NoProcs]
    /\ artifact = [j \in Jobs |-> FALSE]
    /\ emitted = [j \in Jobs |-> <<>>]
    /\ cancel_in_export = [j \in Jobs |-> FALSE]
    /\ cancel_issued = [j \in Jobs |-> FALSE]
    /\ unlocked_access = [j \in Jobs |-> FALSE]

\* The program once the main window is up, but for `call`.
Constructed == ConstructedWith(<<>>, <<>>)

Init ==
    /\ Constructed
    /\ call = NoCall

\* ------------------------------------------------------------ CLIExecutor
\* output_queue.put of each event of evs, in order, on behalf of job j.
Emit(j, evs) ==
    /\ emitted' = [emitted EXCEPT ![j] = @ \o evs]
    /\ output_queue' = output_queue \o FilterUI(evs)

\* `with self.process_lock:` around statements that do not block: the lock
\* is free when the block is entered and free again when it is left.
with_process_lock ==
    /\ process_lock = Free
    /\ UNCHANGED process_lock

set_current_process(p, running) ==
    /\ with_process_lock
    /\ current_process' = p
    /\ is_running' = running

clear_current_process ==
    /\ with_process_lock
    /\ current_process' = None
    /\ is_running' = FALSE

BuildPcs == {"start", "mkdtemp", "check0", "step1", "images", "export_wait",
             "check2", "step3", "step4", "tarball", "check5", "run_tool",
             "tool_wait", "finish", "except", "finally"}
CmdPcs == {"cmd_start", "cmd_popen", "cmd_locked", "cmd_read", "cmd_wait",
           "cmd_notfound", "cmd_except"}

KilledEvs == <<Ev("output", "--- Command forcibly killed ---"),
               Ev("status", "Command killed"), command_finished>>
TerminatedEvs == <<Ev("output", "--- Cancellation requested ---"),
                   Ev("status", "Trying to cancel..."), cancel_requested_ev>>

\* Popen.send_signal: the signal reaches the process only while it runs.
\* SIGKILL ends it at once; SIGTERM ends it at once or is handled by the
\* process, which then goes on running for a while.
Signalled(h, sig, dies) ==
    IF procs[h.job][h.kind].st = "running" /\ dies
    THEN [procs EXCEPT ![h.job][h.kind] = Exited(-sig)]
    ELSE procs

\* The test without the pending cancel: only a forced request kills.
force_kill_ignoring_pending(force) == force

\* `if force or self.cancel_requested:` in cancel_command.
force_kill(force) == force \/ cancel_requested

cancel_command(force) ==
    LET h == current_process IN
    /\ process_lock = Free
    /\ cancel_issued' = [j \in Jobs |-> cancel_issued[j] \/ pc[j] \in BuildPcs]
    /\ IF h # None /\ is_running
       THEN /\ presses' = presses + 1
            /\ cancel_in_export' =
                 [j \in Jobs |-> cancel_in_export[j] \/ h = Handle(j, "gzip")]
            /\ IF force_kill(force)
               THEN /\ procs' = Signalled(h, SIGKILL, TRUE)
                    /\ Emit(h.job, KilledEvs)
                    /\ cancel_requested' = FALSE
                    /\ last_signal' = SIGKILL
               ELSE /\ cancel_requested' = TRUE
                    /\ \E dies \in BOOLEAN : procs' = Signalled(h, SIGTERM, dies)
                    /\ Emit(h.job, TerminatedEvs)
                    /\ last_signal' = SIGTERM
       ELSE UNCHANGED <<cancel_in_export, procs, emitted, output_queue,
                        cancel_requested, presses, last_signal>>
    /\ UNCHANGED <<current_process, process_lock, is_running>>

\* ----------------------------------------------------- ArtifactTool (UI)
\* The cancel button: its handler reads the button text.
cancel_current_command ==
    /\ cancel_button.visible
    /\ presses < MaxCancels
    /\ cancel_command(cancel_button.text = "Force Cancel")
    /\ UNCHANGED <<cancel_button, last_submit, form_images,
                   docker_images_listbox, added,
                   compose_service_count, docker_images_warning_label,
                   docker_files_listbox,
                   call, pc, docker_images, unlocked_access,
                   params, index, archive, temp_dir, workspace, image_paths,
                   process, artifact>>

\* One message of process_output_queue, on [button, cancel_requested].
HandleMsg(msg, st) ==
    IF msg = command_started
    THEN [st EXCEPT !.button = [visible |-> TRUE, text |-> "Cancel"]]
    ELSE IF msg = cancel_requested_ev
    THEN [st EXCEPT !.button.text = "Force Cancel"]
    ELSE IF msg = command_finished
    THEN [button |-> [visible |-> FALSE, text |-> "Cancel"], cancel |-> FALSE]
    ELSE st

RECURSIVE Drain(_, _)
Drain(q, st) == IF q = <<>> THEN st ELSE Drain(Tail(q), HandleMsg(Head(q), st))

\* One poll: every message in the queue is handled, oldest first.
process_output_queue ==
    /\ output_queue # <<>>
    /\ Has(output_queue, command_finished) => process_lock = Free
    /\ LET st == Drain(output_queue,
                       [button |-> cancel_button, cancel |-> cancel_requested])
       IN  /\ cancel_button' = st.button
           /\ cancel_requested' = st.cancel
    /\ output_queue' = <<>>
    /\ UNCHANGED <<current_process, process_lock, is_running, presses,
                   last_signal, last_submit, form_images,
                   docker_images_listbox, added, compose_service_count,
                   docker_images_warning_label, docker_files_listbox, call>>
    /\ UNCHANGED jobVars

\* ---------------------------------------------------------- DockerCreator
\* BaseTab.validate_required_fields: no field value is the empty string.
validate_required_fields(fields) ==
    LET missing == {name \in DOMAIN fields : fields[name] = <<>>}
    IN  missing = {}

\* The validation without the test on the image list.
validate_docker_fields_any_images(req) ==
    LET required_fields ==
            [app_name |-> strip(req.app_name),
             compose_file |-> strip(req.compose_file),
             artifact_name |-> strip(req.artifact_name),
             device_type |-> strip(req.device_type)]
    IN  IF ~validate_required_fields(required_fields) THEN FALSE
        ELSE IF re_search_forbidden(required_fields.artifact_name) THEN FALSE
        ELSE TRUE

validate_docker_fields(req) ==
    LET required_fields ==
            [app_name |-> strip(req.app_name),
             compose_file |-> strip(req.compose_file),
             artifact_name |-> strip(req.artifact_name),
             device_type |-> strip(req.device_type)]
    IN  IF ~validate_required_fields(required_fields) THEN FALSE
        ELSE IF re_search_forbidden(required_fields.artifact_name) THEN FALSE
        ELSE IF Len(req.docker_images) = 0 THEN FALSE
        ELSE TRUE

\* utils.resolve_path: None (the empty path) for a string that is empty once
\* stripped; an absolute path as it is once stripped; "~" expanded to the
\* home directory; any other path made absolute from the working directory.
Cwd == <<"/", "w">>
Home == <<"/", "h">>
resolve_path(path_str) ==
    LET stripped == strip(path_str) IN
    IF path_str = <<>> \/ stripped = <<>> THEN <<>>
    ELSE IF stripped[1] = "/" THEN stripped
    ELSE IF stripped[1] = "~" /\ (Len(stripped) = 1 \/ stripped[2] = "/")
    THEN Home \o Tail(stripped)
    ELSE Cwd \o <<"/">> \o stripped

\* _resolve_paths: the compose path resolves and names an existing file.
resolve_paths(req) ==
    LET compose_path == resolve_path(strip(req.compose_file))
    IN  ~(compose_path = <<>> \/ ~req.compose_exists)

\* A request the submission handler has to turn down: a required text field
\* left empty, no image listed, or a compose file that is not there.
Deficient(req) ==
    \/ req.app_name = <<>>
    \/ req.artifact_name = <<>>
    \/ req.compose_file = <<>>
    \/ req.device_type = <<>>
    \/ Len(req.docker_images) = 0
    \/ ~req.compose_exists

\* The slot a new worker thread takes: the first one of slots.  A slot is
\* free when no worker lives in it, unused when none ever did.
FreeSlots == {j \in Jobs : pc[j] \in {"idle", "done"}}
UnusedSlots == {j \in Jobs : pc[j] = "idle"}
NextSlot(slots) == CHOOSE j \in slots : \A k \in slots : j <= k

\* threading.Thread(target=...).start() in slot j, with fresh locals.
StartThread(j, first_pc, images, rest) ==
    /\ pc' = [pc EXCEPT ![j] = first_pc]
    /\ docker_images' = [docker_images EXCEPT ![j] = images]
    /\ params' = [params EXCEPT ![j] = rest]
    /\ unlocked_access' = [unlocked_access EXCEPT ![j] = FALSE]
    /\ index' = [index EXCEPT ![j] = NoIndex]
    /\ archive' = [archive EXCEPT ![j] = <<>>]
    /\ temp_dir' = [temp_dir EXCEPT ![j] = FALSE]
    /\ workspace' = [workspace EXCEPT ![j] = FALSE]
    /\ image_paths' = [image_paths EXCEPT ![j] = <<>>]
    /\ process' = [process EXCEPT ![j] = None]
    /\ procs' = [procs EXCEPT ![j] = NoProcs]
    /\ artifact' = [artifact EXCEPT ![j] = FALSE]
    /\ emitted' = [emitted EXCEPT ![j] = <<>>]
    /\ cancel_in_export' = [cancel_in_export EXCEPT ![j] = FALSE]
    /\ cancel_issued' = [cancel_issued EXCEPT ![j] = FALSE]

\* The handler of the "Create Docker Artifact" button, for the form req.
create_docker_container_artifact(req, slots) ==
    /\ slots # {}
    /\ Len(output_queue) <= MaxPending
    /\ IF validate_docker_fields(req) /\ resolve_paths(req)
       THEN /\ StartThread(NextSlot(slots), "start", req.docker_images,
                            [app_name |-> strip(req.app_name),
                             compose_file |-> resolve_path(strip(req.compose_file)),
                             additional_files |-> req.additional_files])
            /\ last_submit' = [invalid |-> Deficient(req), outcome |-> "started"]
            /\ presses' = 0
            /\ last_signal' = 0
       ELSE /\ last_submit' = [invalid |-> Deficient(req), outcome |-> "rejected"]
            /\ UNCHANGED <<presses, last_signal>>
            /\ UNCHANGED jobVars
    /\ UNCHANGED <<current_process, process_lock, is_running, cancel_requested,
                   output_queue, cancel_button, call, form_images,
                   docker_images_listbox, added,
                   compose_service_count, docker_images_warning_label,
                   docker_files_listbox>>

\* The user presses the button while nothing else runs.
SubmitBuild ==
    /\ \A j \in Jobs : pc[j] \in {"idle", "done"}
    /\ \E req \in Requests : create_docker_container_artifact(req, FreeSlots)

\* The same press, over the forms of the submission handler.
SubmitForm ==
    /\ \A j \in Jobs : pc[j] \in {"idle", "done"}
    /\ \E req \in FormRequests : create_docker_container_artifact(req, FreeSlots)

\* The user presses it whatever is running.
SubmitBuildAnyTime ==
    create_docker_container_artifact(OneImage, UnusedSlots)

\* _check_cancellation: the events it puts; its result is cancel_requested.
check_cancellation ==
    IF cancel_requested
    THEN <<Ev("output", "Operation cancelled by user"), command_finished>>
    ELSE <<>>

\* ------------------------------------------------- _generate_index_contents
NL == "\n"

\* Path.name: what follows the last separator.
RECURSIVE name(_)
name(path) ==
    IF \E i \in 1..Len(path) : path[i] = "/"
    THEN name(Tail(path))
    ELSE path

\* "\n".join(lines)
RECURSIVE join(_)
join(lines) ==
    IF lines = <<>> THEN <<>>
    ELSE IF Len(lines) = 1 THEN lines[1]
    ELSE lines[1] \o <<NL>> \o join(Tail(lines))

\* The manifest with the image file names in sorted order of their first
\* character.
generate_index_contents_sorted(compose_file, paths, app_name) ==
    LET n == Len(paths)
        swap == n >= 2 /\ name(paths[1].path)[1] = "c"
                       /\ name(paths[2].path)[1] = "b"
        sorted == IF swap
                  THEN <<paths[2], paths[1]>> \o SubSeq(paths, 3, n)
                  ELSE paths
    IN  [inner |-> join(<<name(compose_file)>>
                        \o [i \in 1..n |-> name(sorted[i].path)]) \o <<NL>>,
         outer |-> app_name \o <<"/", "i", "n", "d", "e", "x", NL>>]

\* The value returned by _generate_index_contents.
generate_index_contents(compose_file, paths, app_name) ==
    LET image_filenames == [i \in 1..Len(paths) |-> name(paths[i].path)]
        inner_index_lines == <<name(compose_file)>> \o image_filenames
    IN  [inner |-> join(inner_index_lines) \o <<NL>>,
         outer |-> app_name \o <<"/", "i", "n", "d", "e", "x", NL>>]

\* ------------------------------------------------- the tarball's contents
\* str.replace, for strings of one character.
replace(s, old, new) == [i \in 1..Len(s) |-> IF s[i] = old THEN new ELSE s[i]]

\* The temporary directory of a build, and the path _handle_docker_images
\* gives to a listed image: the tarball itself, or the file the export
\* writes into the temporary directory.
TempDir(j) == <<"t", <<"1", "2", "3", "4">>[j]>>

\* The path of an image when tarballs too are staged in the temporary
\* directory.
image_path_staged(img, workspace_dir) ==
    workspace_dir \o <<"/">>
       \o (IF img.type = "file" THEN name(resolve_path(img.source))
           ELSE replace(replace(img.source, "/", "_"), ":", "_")
                   \o <<".", "t", "a", "r", ".", "g", "z">>)

image_path(img, workspace_dir) ==
    IF img.type = "file"
    THEN resolve_path(img.source)
    ELSE workspace_dir \o <<"/">>
            \o replace(replace(img.source, "/", "_"), ":", "_")
            \o <<".", "t", "a", "r", ".", "g", "z">>

\* The list _handle_docker_images returns for the images it has acquired.
resolved(images, workspace_dir) ==
    [i \in 1..Len(images) |->
        [type |-> images[i].type, source |-> images[i].source,
         path |-> image_path(images[i], workspace_dir)]]

\* An event about a file: its kind, its text and the file's name.
EvAbout(kind, text, about) == <<kind, text, about>>

\* `file_path and file_path.exists()` for a listed extra file.
present(f) == resolve_path(f.path) # <<>> /\ f.exists

\* Step 3: a warning for every listed extra file that is not there.
RECURSIVE skip_warnings(_)
skip_warnings(files) ==
    IF files = <<>> THEN <<>>
    ELSE (IF present(Head(files)) THEN <<>>
          ELSE <<EvAbout("output", "Warning: File not found, skipping",
                         Head(files).path)>>)
         \o skip_warnings(Tail(files))

\* The extra files _try_create_tarball adds: those that are there.
RECURSIVE existing(_)
existing(files) ==
    IF files = <<>> THEN <<>>
    ELSE (IF present(Head(files)) THEN <<Head(files)>> ELSE <<>>)
         \o existing(Tail(files))

\* A member of the tarball: its name, what it was made from, the path its
\* bytes were read from, or its contents when they come from memory.
Entry(arcname, of, path, content) ==
    [arcname |-> arcname, of |-> of, path |-> path, content |-> content]

InApp(app_name, path) == app_name \o <<"/">> \o name(path)

\* The members _try_create_tarball writes, in the order it writes them.
tar_members(p, images, inner_index_content, outer_index_content) ==
    LET files == existing(p.additional_files) IN
    <<Entry(InApp(p.app_name, p.compose_file), "compose", p.compose_file,
            <<>>)>>
    \o [i \in 1..Len(images) |->
           Entry(InApp(p.app_name, images[i].path), "image", images[i].path,
                 <<>>)]
    \o [i \in 1..Len(files) |->
           Entry(InApp(p.app_name, resolve_path(files[i].path)), "file",
                 resolve_path(files[i].path), <<>>)]
    \o <<Entry(p.app_name \o <<"/", "i", "n", "d", "e", "x">>, "index", <<>>,
              inner_index_content),
         Entry(<<"i", "n", "d", "e", "x">>, "index", <<>>,
               outer_index_content)>>

\* The "Adding ..." lines _try_create_tarball puts while it writes.
adding_events(p, images) ==
    LET files == existing(p.additional_files) IN
    [i \in 1..Len(images) |->
        EvAbout("output", "Adding image", name(images[i].path))]
    \o [i \in 1..Len(files) |->
           EvAbout("output", "Adding file/directory",
                   name(resolve_path(files[i].path)))]

Goto(j, where) == pc' = [pc EXCEPT ![j] = where]

\* create_artifact, up to the temporary directory.
create_artifact_begin(j) ==
    /\ pc[j] = "start"
    /\ set_current_process(None, TRUE)
    /\ Emit(j, <<Ev("clear", ""),
                 Ev("status", "Creating Docker container artifact..."),
                 command_started>>)
    /\ Goto(j, "mkdtemp")
    /\ UNCHANGED <<cancel_requested, docker_images, unlocked_access, params,
                   index, archive, temp_dir, workspace, image_paths, process,
                   procs, artifact, cancel_in_export, cancel_issued>>
    /\ UNCHANGED uiVars

\* tempfile.mkdtemp: the directory is made, or the call raises.
create_artifact_mkdtemp(j) ==
    /\ pc[j] = "mkdtemp"
    /\ \E made \in BOOLEAN :
          IF made
          THEN /\ temp_dir' = [temp_dir EXCEPT ![j] = TRUE]
               /\ workspace' = [workspace EXCEPT ![j] = TRUE]
               /\ Emit(j, <<Ev("output", "Created temporary directory")>>)
               /\ Goto(j, "check0")
          ELSE /\ Goto(j, "except")
               /\ UNCHANGED <<temp_dir, workspace, emitted, output_queue>>
    /\ UNCHANGED <<docker_images, unlocked_access, params, index, archive,
                   image_paths, process, procs, artifact, cancel_in_export,
                   cancel_issued>>
    /\ UNCHANGED execVars
    /\ UNCHANGED uiVars

\* A statement of the shape `if self._check_cancellation(): return False`,
\* with the events evs put before the check.
CheckThen(j, evs, next) ==
    /\ Emit(j, evs \o check_cancellation)
    /\ Goto(j, IF cancel_requested THEN "finish" ELSE next)

LocalStep == 
    /\ UNCHANGED <<docker_images, unlocked_access, params, index, archive,
                   temp_dir, workspace, image_paths, process, procs,
                   artifact, cancel_in_export, cancel_issued>>
    /\ UNCHANGED execVars
    /\ UNCHANGED uiVars

\* `if not self._check_cancellation():` in create_artifact.
create_artifact_check(j) ==
    /\ pc[j] = "check0"
    /\ CheckThen(j, <<>>, "step1")
    /\ LocalStep

\* Step 1 of _execute_artifact_steps.
execute_step1(j) ==
    /\ pc[j] = "step1"
    /\ \E exists \in BOOLEAN :
          IF ~exists \/ cancel_requested
          THEN /\ Emit(j, (IF exists THEN check_cancellation ELSE <<>>)
                          \o <<Ev("output", "Error: Compose file not found")>>)
               /\ Goto(j, "finish")
          ELSE /\ Goto(j, "images")
               /\ UNCHANGED <<emitted, output_queue>>
    /\ LocalStep

\* The exit codes of the save process: done, failed, broken pipe, terminated
\* and killed.
DockerCodes == {0, 1, -SIGPIPE, -SIGTERM, -SIGKILL}
\* The ones a build finds it with once the compression filter has ended: it
\* has ended by itself, or the worker has terminated it.
SaveCodes == {0, 1, -SIGTERM}
\* The compression filter ends by itself with 0 or 1.
ExitCodes == {0, 1}
OutputSizes == {0, 1}

Ret(success, message) == [success |-> success, message |-> message]
Unset == Ret(FALSE, "")

\* _export_docker_image from the exit codes on (artifact_gui): the chain of
\* tests assigns return_tuple, then the file is written and return_tuple is
\* assigned again.
export_docker_image(docker_returncode, gzip_returncode, size, written) ==
    LET return_tuple ==
            IF docker_returncode \in {-SIGTERM, -SIGKILL}
            THEN Ret(FALSE, "Export cancelled")
            ELSE IF docker_returncode # 0
            THEN Ret(FALSE, "Error exporting Docker image")
            ELSE IF gzip_returncode # 0
            THEN Ret(FALSE, "Error compressing image")
            ELSE IF size = 0
            THEN Ret(FALSE, "Error: Docker save produced no output")
            ELSE Unset
    IN  IF written
        THEN Ret(TRUE, "Exported Docker image")
        ELSE Ret(FALSE, "Error during Docker export")

\* The same function in the single-image tab (app): every test returns.
export_docker_image_app(docker_returncode, gzip_returncode, size, written) ==
    IF docker_returncode = -SIGTERM \/ docker_returncode = -SIGKILL
    THEN Ret(FALSE, "Export cancelled")
    ELSE IF docker_returncode # 0
    THEN Ret(FALSE, "Error exporting Docker image")
    ELSE IF gzip_returncode # 0
    THEN Ret(FALSE, "Error compressing image")
    ELSE IF size = 0
    THEN Ret(FALSE, "Error: Docker save produced no output")
    ELSE IF written
    THEN Ret(TRUE, "Exported Docker image")
    ELSE Ret(FALSE, "Error during Docker export")

NotFoundRet == Ret(FALSE, "Docker or gzip command not found")

\* The loop going on to the next image after a failed export.
AfterExport_continue(j, img, ret, before) ==
    /\ Emit(j, before \o (IF ~ret.success
                           THEN <<Ev("output", ret.message),
                                  Ev("status", "Docker export failed"),
                                  command_finished>>
                           ELSE <<Ev("output", "Exported Docker image")>>))
    /\ image_paths' = [image_paths EXCEPT ![j] = Append(@, img)]
    /\ Goto(j, "images")

\* _handle_docker_images after _export_docker_image has returned ret.
AfterExport(j, img, ret, before) ==
    IF ~ret.success
    THEN /\ Emit(j, before \o <<Ev("output", ret.message),
                                Ev("status", "Docker export failed"),
                                command_finished>>)
         /\ Goto(j, "finish")
         /\ UNCHANGED image_paths
    ELSE /\ Emit(j, before \o <<Ev("output", "Exported Docker image")>>)
         /\ image_paths' = [image_paths EXCEPT ![j] = Append(@, img)]
         /\ Goto(j, "images")

\* params["docker_images"] read from the form's own list, not from a copy.
params_docker_images_live(j) == form_images

\* params["docker_images"] as the worker reads it: the copy made at
\* submission.
params_docker_images(j) == docker_images[j]

\* One turn of the loop of _handle_docker_images, up to the point where the
\* worker waits for the compression filter; after the last image, the return.
handle_docker_images(j) ==
    /\ pc[j] = "images"
    /\ LET i == Len(image_paths[j]) + 1 IN
       IF i > Len(params_docker_images(j))
       THEN /\ Goto(j, "check2")
            /\ UNCHANGED <<emitted, output_queue, image_paths, procs>>
            /\ UNCHANGED execVars
       ELSE LET img == params_docker_images(j)[i] IN
            IF img.type = "file"
            THEN /\ \E exists \in BOOLEAN :
                       IF exists
                       THEN /\ Emit(j, <<Ev("output", "Using image tarball")>>)
                            /\ image_paths' = [image_paths EXCEPT ![j] = Append(@, img)]
                            /\ Goto(j, "images")
                       ELSE /\ Emit(j, <<Ev("output", "Error: Image file not found")>>)
                            /\ Goto(j, "finish")
                            /\ UNCHANGED image_paths
                 /\ UNCHANGED procs
                 /\ UNCHANGED execVars
            ELSE \E launch \in {"ok", "docker_missing", "gzip_missing"} :
                    IF launch = "ok"
                    THEN /\ procs' = [procs EXCEPT ![j]["docker"] = Running,
                                                   ![j]["gzip"] = Running]
                         /\ set_current_process(Handle(j, "gzip"), TRUE)
                         /\ Emit(j, <<Ev("output", "Exporting Docker image")>>)
                         /\ Goto(j, "export_wait")
                         /\ UNCHANGED <<image_paths, cancel_requested>>
                    ELSE /\ procs' = [procs EXCEPT ![j]["docker"] =
                                        IF launch = "gzip_missing" THEN Running
                                        ELSE NotStarted,
                                                   ![j]["gzip"] = NotStarted]
                         /\ set_current_process(None, TRUE)
                         /\ AfterExport(j, img, NotFoundRet,
                                        <<Ev("output", "Exporting Docker image")>>)
                         /\ UNCHANGED cancel_requested
    /\ UNCHANGED <<docker_images, unlocked_access, params, index, archive,
                   temp_dir, workspace, process, artifact, cancel_in_export,
                   cancel_issued>>
    /\ UNCHANGED uiVars

\* _export_docker_image from gzip_process.communicate() on, and the rest of
\* the loop turn.
export_wait(j) ==
    /\ pc[j] = "export_wait"
    /\ procs[j]["gzip"].st = "exited"
    /\ \E docker_returncode \in SaveCodes, size \in OutputSizes, written \in BOOLEAN :
          /\ procs' = [procs EXCEPT ![j]["docker"] = Exited(docker_returncode)]
          /\ AfterExport(j, params_docker_images(j)[Len(image_paths[j]) + 1],
                         export_docker_image(docker_returncode,
                                             procs[j]["gzip"].rc, size, written),
                         <<>>)
    /\ set_current_process(None, TRUE)
    /\ UNCHANGED <<docker_images, unlocked_access, params, index, archive,
                   temp_dir, workspace, process, artifact, cancel_in_export,
                   cancel_issued, cancel_requested>>
    /\ UNCHANGED uiVars

\* `if not image_paths or self._check_cancellation()` after step 2.
execute_check2(j) ==
    /\ pc[j] = "check2"
    /\ IF image_paths[j] = <<>>
       THEN /\ Goto(j, "finish")
            /\ UNCHANGED <<emitted, output_queue>>
       ELSE CheckThen(j, <<>>, "step3")
    /\ LocalStep

\* Step 3 going on to the tarball without the manifests.
execute_step3_then_tarball(j) ==
    /\ pc[j] = "step3"
    /\ CheckThen(j, skip_warnings(params[j].additional_files), "tarball")
    /\ LocalStep

\* Step 3 and its cancellation check.
execute_step3(j) ==
    /\ pc[j] = "step3"
    /\ CheckThen(j, skip_warnings(params[j].additional_files), "step4")
    /\ LocalStep

\* Step 4 and its cancellation check.
execute_step4(j) ==
    /\ pc[j] = "step4"
    /\ index' = [index EXCEPT ![j] =
                    generate_index_contents(params[j].compose_file,
                                            resolved(image_paths[j], TempDir(j)),
                                            params[j].app_name)]
    /\ CheckThen(j, <<Ev("output", "Generating index")>>, "tarball")
    /\ UNCHANGED <<docker_images, unlocked_access, params, archive, temp_dir,
                   workspace, image_paths, process, procs, artifact,
                   cancel_in_export, cancel_issued>>
    /\ UNCHANGED execVars
    /\ UNCHANGED uiVars

\* _try_create_tarball: the archive is written, or tarfile raises.
try_create_tarball(j) ==
    /\ pc[j] = "tarball"
    /\ LET adding == adding_events(params[j], resolved(image_paths[j], TempDir(j))) IN
       \E written \in 0..(Len(adding) + 1) :
          IF written = Len(adding) + 1
          THEN /\ archive' = [archive EXCEPT ![j] =
                                 tar_members(params[j], resolved(image_paths[j], TempDir(j)),
                                             index[j].inner, index[j].outer)]
               /\ Emit(j, <<Ev("output", "Creating tarball")>> \o adding
                          \o <<Ev("output", "Tarball created successfully")>>)
               /\ Goto(j, "check5")
          ELSE /\ Emit(j, <<Ev("output", "Creating tarball")>>
                          \o SubSeq(adding, 1, written)
                          \o <<Ev("output", "Error creating tarball"),
                               Ev("status", "Failed to create tarball"),
                               command_finished>>)
               /\ Goto(j, "finish")
               /\ UNCHANGED archive
    /\ UNCHANGED <<docker_images, unlocked_access, params, index, temp_dir,
                   workspace, image_paths, process, procs, artifact,
                   cancel_in_export, cancel_issued>>
    /\ UNCHANGED execVars
    /\ UNCHANGED uiVars

\* `if not tarball_path or self._check_cancellation()` after step 5.
execute_check5(j) ==
    /\ pc[j] = "check5"
    /\ CheckThen(j, <<>>, "run_tool")
    /\ LocalStep

\* _run_rdfm_artifact up to process.communicate(): Popen starts the tool or
\* raises FileNotFoundError.
run_rdfm_artifact(j) ==
    /\ pc[j] = "run_tool"
    /\ Emit(j, <<Ev("output", "Running rdfm-artifact...")>>)
    /\ \E found \in BOOLEAN :
          IF found
          THEN /\ procs' = [procs EXCEPT ![j]["tool"] = Running]
               /\ set_current_process(Handle(j, "tool"), TRUE)
               /\ Goto(j, "tool_wait")
          ELSE /\ Goto(j, "except")
               /\ UNCHANGED <<procs, current_process, process_lock, is_running>>
    /\ UNCHANGED <<docker_images, unlocked_access, params, index, archive,
                   temp_dir, workspace, image_paths, process, artifact,
                   cancel_in_export, cancel_issued, cancel_requested>>
    /\ UNCHANGED uiVars

\* _run_rdfm_artifact with no test for a signal: an exit by SIGTERM or
\* SIGKILL is a non-zero exit like any other.
run_rdfm_artifact_report_no_signal(returncode) ==
    IF returncode = 0
    THEN <<Ev("output", "Docker container artifact created successfully"),
           Ev("status", "Docker artifact created successfully")>>
    ELSE <<Ev("status", "Command failed with code")>>

\* _run_rdfm_artifact: what it puts for the exit code of the tool.
run_rdfm_artifact_report(returncode) ==
    IF returncode \in {-SIGTERM, -SIGKILL}
    THEN <<Ev("output", "Operation cancelled by user")>>
    ELSE IF returncode = 0
    THEN <<Ev("output", "Docker container artifact created successfully"),
           Ev("status", "Docker artifact created successfully")>>
    ELSE <<Ev("status", "Command failed with code")>>

\* The rdfm-artifact step of create_artifact (app): what it puts for the
\* exit code of the tool.
run_rdfm_artifact_report_app(returncode) ==
    IF returncode = -SIGTERM \/ returncode = -SIGKILL
    THEN <<Ev("output", "Operation cancelled by user"), command_finished>>
    ELSE (IF returncode = 0
          THEN <<Ev("output", "Docker container artifact created successfully"),
                 Ev("status", "Docker artifact created successfully")>>
          ELSE <<Ev("status", "Command failed with code")>>)
         \o <<command_finished>>

\* _run_rdfm_artifact from the return of process.communicate() on. The pipes
\* are opened with text=True: communicate() decodes what the tool wrote and
\* raises when that is not text in the locale's encoding.
run_rdfm_artifact_wait(j) ==
    /\ pc[j] = "tool_wait"
    /\ procs[j]["tool"].st = "exited"
    /\ \E decoded \in BOOLEAN :
          IF decoded
          THEN /\ set_current_process(None, TRUE)
               /\ Emit(j, run_rdfm_artifact_report(procs[j]["tool"].rc))
               /\ Goto(j, "finish")
          ELSE /\ Goto(j, "except")
               /\ UNCHANGED <<emitted, output_queue, current_process,
                              process_lock, is_running>>
    /\ UNCHANGED <<docker_images, unlocked_access, params, index, archive,
                   temp_dir, workspace, image_paths, process, procs,
                   artifact, cancel_in_export, cancel_issued,
                   cancel_requested>>
    /\ UNCHANGED uiVars

\* create_artifact after _execute_artifact_steps (or the check) has returned.
create_artifact_finish(j) ==
    /\ pc[j] = "finish"
    /\ Emit(j, <<command_finished>>)
    /\ Goto(j, "finally")
    /\ LocalStep

\* The `except Exception` clause without its last put: the failure is
\* reported and command_finished is not.
create_artifact_except_unfinished(j) ==
    /\ pc[j] = "except"
    /\ Emit(j, <<Ev("output", "Error"),
                 Ev("status", "Docker artifact creation failed")>>)
    /\ Goto(j, "finally")
    /\ LocalStep

\* The `except Exception` clause of create_artifact.
create_artifact_except(j) ==
    /\ pc[j] = "except"
    /\ Emit(j, <<Ev("output", "Error"),
                 Ev("status", "Docker artifact creation failed"),
                 command_finished>>)
    /\ Goto(j, "finally")
    /\ LocalStep

\* The clean-up done at the end of the try block only: a build that has not
\* reported success keeps its directory.
create_artifact_finally_after_success(j) ==
    /\ pc[j] = "finally"
    /\ clear_current_process
    /\ IF temp_dir[j] /\ workspace[j]
          /\ Has(emitted[j], Ev("status", "Docker artifact created successfully"))
       THEN \E removed \in BOOLEAN :
               IF removed
               THEN /\ workspace' = [workspace EXCEPT ![j] = FALSE]
                    /\ Emit(j, <<Ev("output", "Cleaned up temporary directory")>>)
               ELSE /\ Emit(j, <<Ev("output", "Warning: Could not clean up temp dir")>>)
                    /\ UNCHANGED workspace
       ELSE UNCHANGED <<workspace, emitted, output_queue>>
    /\ Goto(j, "done")
    /\ UNCHANGED <<docker_images, unlocked_access, params, index, archive,
                   temp_dir, image_paths, process, procs, artifact,
                   cancel_in_export, cancel_issued, cancel_requested>>
    /\ UNCHANGED uiVars

\* The `finally` clause of create_artifact: shutil.rmtree removes the
\* directory, or raises.
create_artifact_finally(j) ==
    /\ pc[j] = "finally"
    /\ clear_current_process
    /\ IF temp_dir[j] /\ workspace[j]
       THEN \E removed \in BOOLEAN :
               IF removed
               THEN /\ workspace' = [workspace EXCEPT ![j] = FALSE]
                    /\ Emit(j, <<Ev("output", "Cleaned up temporary directory")>>)
               ELSE /\ Emit(j, <<Ev("output", "Warning: Could not clean up temp dir")>>)
                    /\ UNCHANGED workspace
       ELSE UNCHANGED <<workspace, emitted, output_queue>>
    /\ Goto(j, "done")
    /\ UNCHANGED <<docker_images, unlocked_access, params, index, archive,
                   temp_dir, image_paths, process, procs, artifact,
                   cancel_in_export, cancel_issued, cancel_requested>>
    /\ UNCHANGED uiVars

\* An external process ends by itself.  The artifact tool has written the
\* output file when it ends with 0.
ProcessExits(j, k) ==
    /\ k # "docker"
    /\ procs[j][k].st = "running"
    /\ \E rc \in ExitCodes :
          /\ procs' = [procs EXCEPT ![j][k] = Exited(rc)]
          /\ artifact' = [artifact EXCEPT ![j] = @ \/ (k = "tool" /\ rc = 0)]
    /\ UNCHANGED <<pc, docker_images, unlocked_access, params, index,
                   archive, temp_dir, workspace, image_paths, process,
                   emitted, cancel_in_export, cancel_issued, output_queue>>
    /\ UNCHANGED execVars
    /\ UNCHANGED uiVars

\* ------------------------------------------- CLIExecutor.run_artifact_command
\* run_artifact_command: the thread that runs execute() is started.
run_artifact_command(slots) ==
    /\ slots # {}
    /\ Len(output_queue) <= MaxPending
    /\ StartThread(NextSlot(slots), "cmd_start", <<>>, NoParams)
    /\ presses' = 0
    /\ last_signal' = 0
    /\ UNCHANGED <<current_process, process_lock, is_running, cancel_requested,
                   output_queue, cancel_button, last_submit, form_images,
                   docker_images_listbox, added,
                   compose_service_count, docker_images_warning_label,
                   docker_files_listbox,
                   call>>

\* A tab runs a command while nothing else runs.
SubmitCommand ==
    /\ \A j \in Jobs : pc[j] \in {"idle", "done"}
    /\ run_artifact_command(FreeSlots)

\* A tab runs a command whatever is running.
SubmitCommandAnyTime == run_artifact_command(UnusedSlots)

\* execute(): the three events put before the process is started.
execute_begin(j) ==
    /\ pc[j] = "cmd_start"
    /\ Emit(j, <<Ev("status", "Running"), Ev("clear", ""), command_started>>)
    /\ Goto(j, "cmd_popen")
    /\ LocalStep

\* execute(): `with self.process_lock:` is entered once the lock is free.
execute_acquire(j) ==
    /\ pc[j] = "cmd_popen"
    /\ process_lock = Free
    /\ process_lock' = j
    /\ Goto(j, "cmd_locked")
    /\ UNCHANGED <<current_process, is_running, cancel_requested,
                   output_queue>>
    /\ UNCHANGED <<docker_images, unlocked_access, params, index, archive,
                   temp_dir, workspace, image_paths, process, procs, artifact,
                   emitted, cancel_in_export, cancel_issued>>
    /\ UNCHANGED uiVars

\* A `with` block that gives the lock back only when its body ends without
\* an exception.
lock_after_popen_unless_raised(j, launch) ==
    IF launch = "ok" THEN Free ELSE j

\* The holder of the lock once the `with` block around Popen is left, by
\* its end or by an exception.
lock_after_popen(j, launch) == Free

\* execute(): the body of the `with` block: Popen starts the process,
\* raises FileNotFoundError or raises something else.
execute_popen(j) ==
    /\ pc[j] = "cmd_locked"
    /\ process_lock = j
    /\ \E launch \in {"ok", "not_found", "error"} :
          /\ process_lock' = lock_after_popen(j, launch)
          /\ IF launch = "ok"
             THEN /\ procs' = [procs EXCEPT ![j]["cmd"] = Running]
                  /\ current_process' = Handle(j, "cmd")
                  /\ is_running' = TRUE
                  /\ Goto(j, "cmd_read")
             ELSE /\ Goto(j, IF launch = "not_found" THEN "cmd_notfound"
                             ELSE "cmd_except")
                  /\ UNCHANGED <<procs, current_process, is_running>>
    /\ UNCHANGED <<docker_images, unlocked_access, params, index, archive,
                   temp_dir, workspace, image_paths, process, artifact,
                   emitted, cancel_in_export, cancel_issued, cancel_requested,
                   output_queue>>
    /\ UNCHANGED uiVars

\* execute(): `process = self.current_process`, read without the lock.
execute_read_process(j) ==
    /\ pc[j] = "cmd_read"
    /\ process' = [process EXCEPT ![j] = current_process]
    /\ unlocked_access' = [unlocked_access EXCEPT ![j] = TRUE]
    /\ Goto(j, "cmd_wait")
    /\ UNCHANGED <<docker_images, params, index, archive, temp_dir, workspace,
                   image_paths, procs, artifact, emitted, cancel_in_export,
                   cancel_issued, output_queue>>
    /\ UNCHANGED execVars
    /\ UNCHANGED uiVars

\* What the caller of run_artifact_command gave and what the command wrote:
\* the text captured from stdout, the success_message (None, empty or a
\* text) and the callback (None, one that returns, one that raises).
Stdouts == {<<>>, <<"o">>}
SuccessMessages == {[given |-> FALSE, text |-> <<>>],
                    [given |-> TRUE, text |-> <<>>],
                    [given |-> TRUE, text |-> <<"m">>]}
Callbacks == {"none", "returns", "raises"}

\* The truth value Python gives a success_message.
truthy(success_message) == success_message.given /\ success_message.text # <<>>

\* What execute() does after an exception: the lines of `except Exception`.
ExceptionEvs ==
    <<Ev("output", "Exception"), Ev("status", "Command failed"),
      command_finished>>

\* execute() with the fallback message put whenever one was given.
execute_report_any_stdout(returncode, full_stdout, success_message, callback) ==
    IF returncode = 0
    THEN [events |->
              <<Ev("status", "Command completed successfully")>>
              \o (IF truthy(success_message)
                  THEN <<EvAbout("output", "success_message",
                                 success_message.text)>>
                  ELSE <<>>)
              \o (IF callback = "raises" THEN ExceptionEvs
                  ELSE <<command_finished>>),
          called |-> IF callback # "none" THEN <<full_stdout>> ELSE <<>>]
    ELSE [events |-> <<EvAbout("status", "Command failed with code", returncode),
                       command_finished>>,
          called |-> <<>>]

\* execute() from the exit code on: the events it puts and the calls it makes
\* of the callback.
execute_report(returncode, full_stdout, success_message, callback) ==
    IF returncode = 0
    THEN [events |->
              <<Ev("status", "Command completed successfully")>>
              \o (IF full_stdout = <<>> /\ truthy(success_message)
                  THEN <<EvAbout("output", "success_message",
                                 success_message.text)>>
                  ELSE <<>>)
              \o (IF callback = "raises" THEN ExceptionEvs
                  ELSE <<command_finished>>),
          called |-> IF callback # "none" THEN <<full_stdout>> ELSE <<>>]
    ELSE [events |-> <<EvAbout("status", "Command failed with code", returncode),
                       command_finished>>,
          called |-> <<>>]

\* execute() from _run_process on: the wait for `process` (a None handle
\* raises AttributeError), the reset under the lock and the report.
\* _read_stdout, _read_stderr: a reader thread puts a line the process
\* wrote; the pipe holds it until it is read, whether or not the process
\* still runs.
OutputLine == Ev("output", "line")
read_line(j) ==
    /\ pc[j] = "cmd_wait"
    /\ process[j] # None
    /\ Count(emitted[j], OutputLine) < MaxLines
    /\ Emit(j, <<OutputLine>>)
    /\ UNCHANGED <<pc, docker_images, unlocked_access, params, index, archive,
                   temp_dir, workspace, image_paths, process, procs, artifact,
                   cancel_in_export, cancel_issued>>
    /\ UNCHANGED execVars
    /\ UNCHANGED uiVars

\* _run_process from process.wait() on, with both readers joined, and the
\* rest of the try block of execute().
execute_run_process(j) ==
    /\ pc[j] = "cmd_wait"
    /\ IF process[j] = None
       THEN /\ Goto(j, "cmd_except")
            /\ UNCHANGED <<current_process, process_lock, is_running, emitted,
                           output_queue>>
       ELSE /\ procs[process[j].job][process[j].kind].st = "exited"
            /\ clear_current_process
            /\ \E full_stdout \in Stdouts, success_message \in SuccessMessages,
                  callback \in Callbacks :
                  /\ full_stdout # <<>> => Has(emitted[j], OutputLine)
                  /\ Emit(j, execute_report(
                              procs[process[j].job][process[j].kind].rc,
                              full_stdout, success_message, callback).events)
            /\ Goto(j, "done")
    /\ UNCHANGED <<docker_images, unlocked_access, params, index, archive,
                   temp_dir, workspace, image_paths, process, procs,
                   artifact, cancel_in_export, cancel_issued,
                   cancel_requested>>
    /\ UNCHANGED uiVars

\* The `except FileNotFoundError` clause of execute().
execute_not_found(j) ==
    /\ pc[j] = "cmd_notfound"
    /\ clear_current_process
    /\ Emit(j, <<Ev("output", "Error: Command 'rdfm-artifact' not found."),
                 Ev("status", "Command not found"), command_finished>>)
    /\ Goto(j, "done")
    /\ UNCHANGED <<docker_images, unlocked_access, params, index, archive,
                   temp_dir, workspace, image_paths, process, procs,
                   artifact, cancel_in_export, cancel_issued,
                   cancel_requested>>
    /\ UNCHANGED uiVars

\* The `except Exception` clause of execute().
execute_exception(j) ==
    /\ pc[j] = "cmd_except"
    /\ clear_current_process
    /\ Emit(j, ExceptionEvs)
    /\ Goto(j, "done")
    /\ UNCHANGED <<docker_images, unlocked_access, params, index, archive,
                   temp_dir, workspace, image_paths, process, procs,
                   artifact, cancel_in_export, cancel_issued,
                   cancel_requested>>
    /\ UNCHANGED uiVars

Command(j) ==
    \/ execute_begin(j)
    \/ execute_acquire(j)
    \/ execute_popen(j)
    \/ execute_read_process(j)
    \/ read_line(j)
    \/ execute_run_process(j)
    \/ execute_not_found(j)
    \/ execute_exception(j)

Build(j) ==
    \/ create_artifact_begin(j)
    \/ create_artifact_mkdtemp(j)
    \/ create_artifact_check(j)
    \/ execute_step1(j)
    \/ handle_docker_images(j)
    \/ export_wait(j)
    \/ execute_check2(j)
    \/ execute_step3(j)
    \/ execute_step4(j)
    \/ try_create_tarball(j)
    \/ execute_check5(j)
    \/ run_rdfm_artifact(j)
    \/ run_rdfm_artifact_wait(j)
    \/ create_artifact_finish(j)
    \/ create_artifact_except(j)
    \/ create_artifact_finally(j)

\* The program with a user who starts a build or a command only once the
\* one before has ended.
Next ==
    \/ SubmitBuild
    \/ SubmitCommand
    \/ cancel_current_command
    \/ process_output_queue
    \/ \E j \in Jobs : Build(j)
    \/ \E j \in Jobs : Command(j)
    \/ \E j \in Jobs, k \in ProcKinds : ProcessExits(j, k)

Spec == Init /\ [][Next]_vars

\* The program with a user who starts builds and commands at any time and
\* leaves the cancel button alone: one worker thread per slot, the threads
\* running side by side.
NextAnyTime ==
    \/ SubmitBuildAnyTime
    \/ SubmitCommandAnyTime
    \/ process_output_queue
    \/ \E j \in Jobs : Build(j)
    \/ \E j \in Jobs : Command(j)
    \/ \E j \in Jobs, k \in ProcKinds : ProcessExits(j, k)

SpecAnyTime == Init /\ [][NextAnyTime]_vars

\* The program with a user who fills in the form well or badly, starts a
\* build only once the one before has ended and leaves the cancel button
\* alone.
NextForms ==
    \/ SubmitForm
    \/ process_output_queue
    \/ \E j \in Jobs : Build(j)
    \/ \E j \in Jobs, k \in ProcKinds : ProcessExits(j, k)

SpecForms == Init /\ [][NextForms]_vars

\* ------------------------------------------------ functions called alone
\* _export_docker_image from the exit codes on, for every exit code of the
\* save process and of the compression filter, every output size, and the
\* file write succeeding or raising.
GzipCodes == {0, 1, -SIGTERM, -SIGKILL}
ExportArgs == [docker_returncode : DockerCodes, gzip_returncode : GzipCodes,
               size : OutputSizes, written : BOOLEAN]

InitExport ==
    /\ Constructed
    /\ \E fn \in {"_export_docker_image", "_export_docker_image (app)"},
          args \in ExportArgs :
          call = [fn |-> fn, args |-> args, ret |-> <<>>, returned |-> FALSE]

Return(fn, ret) ==
    /\ call.fn = fn
    /\ ~call.returned
    /\ call' = [call EXCEPT !.ret = ret, !.returned = TRUE]
    /\ UNCHANGED <<current_process, process_lock, is_running, cancel_requested,
                   output_queue, cancel_button, presses, last_signal,
                   last_submit, form_images, docker_images_listbox, added,
                   compose_service_count, docker_images_warning_label,
                   docker_files_listbox>>
    /\ UNCHANGED jobVars

CallExport ==
    Return("_export_docker_image",
           export_docker_image(call.args.docker_returncode,
                               call.args.gzip_returncode,
                               call.args.size, call.args.written))

CallExportApp ==
    Return("_export_docker_image (app)",
           export_docker_image_app(call.args.docker_returncode,
                                   call.args.gzip_returncode,
                                   call.args.size, call.args.written))

NextExport ==
    \/ CallExport
    \/ CallExportApp

SpecExport == InitExport /\ [][NextExport]_vars

\* ------------------------------------------- the submission handlers alone
\* What the user may have typed as a name: the field inputs, and names with a
\* path separator or made of dots.
NameInputs == FieldInputs \cup {<<"a", "/">>, <<".", ".">>}

\* The form of either tab at the press of "Create Docker Artifact", with the
\* facts about the filesystem the handlers read.  The multi-image tab reads
\* docker_images; the single-image tab reads image_source, image_tarball and
\* docker_image_name.
SubmitArgs ==
    [app_name : NameInputs, compose_file : {<<>>, <<"a">>},
     artifact_name : NameInputs, device_type : {<<>>, <<"a">>},
     docker_images : {<<>>, <<[type |-> "docker", source |-> <<"i">>]>>},
     compose_exists : BOOLEAN,
     image_source : {"tarball", "export"},
     image_tarball : {<<>>, <<"a">>},
     docker_image_name : {<<>>, <<"a">>},
     tarball_exists : BOOLEAN]

\* create_docker_container_artifact (artifact_gui): does it start the worker.
submission_starts(req) == validate_docker_fields(req) /\ resolve_paths(req)

\* create_docker_container_artifact (app): the required fields, the compose
\* file and the image tarball are tested, then the worker is started.
submission_starts_app(req) ==
    LET required_fields ==
            [app_name |-> strip(req.app_name),
             compose_file |-> strip(req.compose_file),
             artifact_name |-> strip(req.artifact_name),
             device_type |-> strip(req.device_type),
             image |-> IF req.image_source = "tarball"
                       THEN strip(req.image_tarball)
                       ELSE strip(req.docker_image_name)]
        compose_path == resolve_path(strip(req.compose_file))
        image_tarball_path == resolve_path(strip(req.image_tarball))
    IN  IF ~validate_required_fields(required_fields) THEN FALSE
        ELSE IF compose_path = <<>> \/ ~req.compose_exists THEN FALSE
        ELSE IF /\ req.image_source = "tarball"
                /\ (image_tarball_path = <<>> \/ ~req.tarball_exists)
        THEN FALSE
        ELSE TRUE

Started(b) == [started |-> b]

InitSubmit ==
    /\ Constructed
    /\ \E fn \in {"create_docker_container_artifact",
                  "create_docker_container_artifact (app)"},
          args \in SubmitArgs :
          call = [fn |-> fn, args |-> args, ret |-> <<>>, returned |-> FALSE]

CallSubmit ==
    Return("create_docker_container_artifact",
           Started(submission_starts(call.args)))

CallSubmitApp ==
    Return("create_docker_container_artifact (app)",
           Started(submission_starts_app(call.args)))

NextSubmit ==
    \/ CallSubmit
    \/ CallSubmitApp

SpecSubmit == InitSubmit /\ [][NextSubmit]_vars

\* ---------------------------------------- _generate_index_contents alone
\* Paths of files, as the file dialogs and the export step give them.
Paths == {<<"b">>, <<"c">>, <<"d", "/", "b">>, <<"d", "/", "c", ".", "y">>}
ResolvedImages == [type : ImageTypes, source : ImageSources, path : Paths]
IndexArgs ==
    [compose_file : Paths, app_name : {<<"a">>, <<"a", ".", "b">>},
     image_paths : SeqsUpTo(ResolvedImages, MaxImages) \ {<<>>}]

InitIndex ==
    /\ Constructed
    /\ \E args \in IndexArgs :
          call = [fn |-> "_generate_index_contents", args |-> args,
                  ret |-> <<>>, returned |-> FALSE]

CallIndex ==
    Return("_generate_index_contents",
           generate_index_contents(call.args.compose_file, call.args.image_paths,
                                   call.args.app_name))

SpecIndex == InitIndex /\ [][CallIndex]_vars

\* ------------------------------------------------ the image list of the form
\* What the file dialog and the image selection dialog can give.
MaxAdds == 3
FileSources == {<<"c">>, <<"d", "/", "c">>}
ImageNames == {<<"b">>, <<"a", "/", "b">>}
Selections == {sel \in SeqsUpTo(ImageNames, 2) :
                  \A m, n \in 1..Len(sel) : m # n => sel[m] # sel[n]}

\* The user edits the image list before the build.
Editable == \A j \in Jobs : pc[j] = "idle"

\* The add operations numbered count+1, count+2, ... for the given images.
NewAdds(images) ==
    [i \in 1..Len(images) |->
        [op |-> added.count + i, type |-> images[i].type,
         source |-> images[i].source]]

\* The warning without the test that the compose file has services at all.
update_images_warning_any_count(service_count, images) ==
    LET image_count == Len(images)
    IN  IF image_count # service_count
        THEN <<"Compose has", service_count,
               IF service_count # 1 THEN "services" ELSE "service",
               "but", image_count,
               IF image_count # 1 THEN "images" ELSE "image", "provided">>
        ELSE NoWarning

\* _update_images_warning: the text the label gets, for the service count
\* and the image list as they stand.
update_images_warning(service_count, images) ==
    LET image_count == Len(images)
    IN  IF service_count > 0 /\ image_count # service_count
        THEN <<"Compose has", service_count,
               IF service_count # 1 THEN "services" ELSE "service",
               "but", image_count,
               IF image_count # 1 THEN "images" ELSE "image", "provided">>
        ELSE NoWarning

\* The appends both add handlers make: to the internal list, to the listbox;
\* the warning is updated when the dialog gave something.
append_images(images) ==
    /\ Len(form_images) + Len(images) <= MaxImages
    /\ added.count + Len(images) <= MaxAdds
    /\ form_images' = form_images \o images
    /\ docker_images_listbox' =
          docker_images_listbox
          \o [i \in 1..Len(images) |->
                 [text |-> images[i].source, op |-> added.count + i]]
    /\ added' = [count |-> added.count + Len(images),
                 surviving |-> added.surviving \o NewAdds(images)]
    /\ docker_images_warning_label' =
          IF images # <<>> THEN update_images_warning(compose_service_count,
                                                     form_images \o images)
          ELSE docker_images_warning_label
    /\ UNCHANGED <<compose_service_count, docker_files_listbox>>
    /\ UNCHANGED <<cancel_button, presses, last_signal, last_submit, call>>
    /\ UNCHANGED output_queue
    /\ UNCHANGED execVars
    /\ UNCHANGED jobVars

\* add_docker_image_from_file: the dialog gives a path, or nothing.
add_docker_image_from_file ==
    \E file_path \in FileSources \cup {<<>>} :
        append_images(IF file_path # <<>>
                      THEN <<[type |-> "file", source |-> file_path]>>
                      ELSE <<>>)

\* add_docker_image_from_docker: the dialog gives the images selected.
add_docker_image_from_docker ==
    \E selected_images \in Selections :
        append_images([i \in 1..Len(selected_images) |->
                          [type |-> "docker", source |-> selected_images[i]]])

\* A list without its element at index (counted from 1).
Delete(list, at) ==
    SubSeq(list, 1, at - 1) \o SubSeq(list, at + 1, Len(list))

\* The add operations left once the one that made a listbox item is removed.
RECURSIVE Without(_, _)
Without(adds, op) ==
    IF adds = <<>> THEN <<>>
    ELSE (IF Head(adds).op = op THEN <<>> ELSE <<Head(adds)>>)
         \o Without(Tail(adds), op)

\* remove_docker_image with the last element of the internal list deleted
\* whatever the selection.
remove_docker_image_last(selection) ==
    /\ docker_images_listbox' = Delete(docker_images_listbox, selection)
    /\ form_images' = Delete(form_images, Len(form_images))

\* remove_docker_image for a selected item of the listbox.
remove_docker_image_at(selection) ==
    /\ docker_images_listbox' = Delete(docker_images_listbox, selection)
    /\ form_images' = Delete(form_images, selection)

\* remove_docker_image: nothing is selected, or the item at selection[0] is.
remove_docker_image ==
    /\ \E selection \in 0..Len(docker_images_listbox) :
          IF selection = 0
          THEN UNCHANGED <<form_images, docker_images_listbox, added,
                           docker_images_warning_label>>
          ELSE /\ remove_docker_image_at(selection)
               /\ docker_images_warning_label' =
                     update_images_warning(compose_service_count, form_images')
               /\ added' = [added EXCEPT !.surviving =
                               Without(@, docker_images_listbox[selection].op)]
    /\ UNCHANGED <<compose_service_count, docker_files_listbox>>
    /\ UNCHANGED <<cancel_button, presses, last_signal, last_submit, call>>
    /\ UNCHANGED output_queue
    /\ UNCHANGED execVars
    /\ UNCHANGED jobVars

\* The first press of "Create Docker Artifact", with the image list as it
\* stands.
SubmitImages ==
    /\ \A j \in Jobs : pc[j] = "idle"
    /\ create_docker_container_artifact(
          [OneImage EXCEPT !.docker_images = form_images], FreeSlots)

\* The program with a user who edits the image list, then starts one build
\* and leaves the cancel button alone.
NextImages ==
    \/ Editable /\ add_docker_image_from_file
    \/ Editable /\ add_docker_image_from_docker
    \/ Editable /\ remove_docker_image
    \/ SubmitImages
    \/ process_output_queue
    \/ \E j \in Jobs : Build(j)
    \/ \E j \in Jobs, k \in ProcKinds : ProcessExits(j, k)

SpecImages == Init /\ [][NextImages]_vars

\* ------------------------------------------------- the extra files of the form
\* The lists of extra files the form can hold: files that are there and files
\* that are not, one of them named like a listed tarball.
MaxExtras == 2
ExtraFiles == [path : {<<"e">>, <<"c">>}, exists : BOOLEAN]
ExtraLists ==
    {files \in SeqsUpTo(ExtraFiles, MaxExtras) :
        \A m, n \in 1..Len(files) :
            files[m].path = files[n].path => files[m].exists = files[n].exists}
ListedImages ==
    {[type |-> "file", source |-> f] : f \in FileSources}
    \cup {[type |-> "docker", source |-> n] : n \in ImageNames}

\* The first press of "Create Docker Artifact", with any list of images and
\* any list of extra files.
SubmitFiles ==
    /\ \A j \in Jobs : pc[j] = "idle"
    /\ \E images \in SeqsUpTo(ListedImages, MaxImages) \ {<<>>},
          files \in ExtraLists :
          create_docker_container_artifact(
              [OneImage EXCEPT !.docker_images = images,
                               !.additional_files = files],
              FreeSlots)

\* The program with a user who starts one build of a form with extra files
\* and leaves the cancel button alone.
NextFiles ==
    \/ SubmitFiles
    \/ process_output_queue
    \/ \E j \in Jobs : Build(j)
    \/ \E j \in Jobs, k \in ProcKinds : ProcessExits(j, k)

SpecFiles == Init /\ [][NextFiles]_vars

\* -------------------------------------------------- the artifact-tool step alone
\* The report of the artifact-tool step of either tab, for every exit code
\* of the tool from -MaxCode to MaxCode.
MaxCode == 16
ToolCodes == (0 - MaxCode)..MaxCode
Events(evs) == [events |-> evs]

InitTool ==
    /\ Constructed
    /\ \E fn \in {"_run_rdfm_artifact", "create_artifact (app)"},
          returncode \in ToolCodes :
          call = [fn |-> fn, args |-> [returncode |-> returncode],
                  ret |-> <<>>, returned |-> FALSE]

CallTool ==
    Return("_run_rdfm_artifact",
           Events(run_rdfm_artifact_report(call.args.returncode)))

CallToolApp ==
    Return("create_artifact (app)",
           Events(run_rdfm_artifact_report_app(call.args.returncode)))

NextTool ==
    \/ CallTool
    \/ CallToolApp

SpecTool == InitTool /\ [][NextTool]_vars

\* ------------------------------------- the report of run_artifact_command alone
\* execute() from the exit code on, for every exit code from -MaxCode to
\* MaxCode, every captured stdout, success_message and callback.  The code of
\* both packages is the same.
CommandArgs ==
    [returncode : ToolCodes, full_stdout : Stdouts,
     success_message : SuccessMessages, callback : Callbacks]

InitCommand ==
    /\ Constructed
    /\ \E args \in CommandArgs :
          call = [fn |-> "run_artifact_command", args |-> args,
                  ret |-> <<>>, returned |-> FALSE]

CallCommand ==
    Return("run_artifact_command",
           execute_report(call.args.returncode, call.args.full_stdout,
                          call.args.success_message, call.args.callback))

SpecCommand == InitCommand /\ [][CallCommand]_vars

\* ------------------------------------------------ the compose file of the form
\* What yaml.safe_load can give, by what _on_compose_file_changed looks at:
\* the type of the value, its size (the number itself for an int), whether
\* it holds "services" (as a key, an item or a substring), and for a mapping
\* the type and the number of entries of the value under that key.
MaxServices == 2
Value(type, size, has_services, services, entries) ==
    [type |-> type, size |-> size, has_services |-> has_services,
     services |-> services, entries |-> entries]
NoneValue == Value("none", 0, FALSE, "absent", 0)
Scalars ==
    {Value("int", 0, FALSE, "absent", 0), Value("int", 1, FALSE, "absent", 0),
     Value("str", 0, FALSE, "absent", 0), Value("str", 1, FALSE, "absent", 0),
     Value("str", 8, TRUE, "absent", 0)}
Lists ==
    {Value("list", 0, FALSE, "absent", 0), Value("list", 1, FALSE, "absent", 0),
     Value("list", 1, TRUE, "absent", 0)}
Mappings ==
    {Value("dict", 0, FALSE, "absent", 0), Value("dict", 1, FALSE, "absent", 0),
     Value("dict", 1, TRUE, "none", 0), Value("dict", 1, TRUE, "int", 2),
     Value("dict", 1, TRUE, "str", 2)}
    \cup {Value("dict", 1, TRUE, type, k) :
             type \in {"list", "dict"}, k \in 0..MaxServices}
Documents == {NoneValue} \cup Scalars \cup Lists \cup Mappings

\* The file the compose path names: not there, not readable, not text, not
\* YAML, or a document.
ComposeFiles ==
    {[kind |-> kind, doc |-> NoneValue] :
        kind \in {"missing", "unreadable", "binary", "malformed"}}
    \cup {[kind |-> "document", doc |-> doc] : doc \in Documents}
ComposePaths == {<<>>, <<" ">>, <<"c">>}

\* bool(value)
truthy_value(value) ==
    IF value.type = "none" THEN FALSE ELSE value.size # 0

\* What the handler's try block ends with: a count, or an exception that
\* `except (yaml.YAMLError, OSError, KeyError)` turns into the count 0, or
\* an exception that leaves the handler.
Counted(n) == [raised |-> "", count |-> n]
Raise(exception) ==
    IF exception \in {"YAMLError", "OSError", "KeyError"} THEN Counted(0)
    ELSE [raised |-> exception, count |-> 0]

\* The count taken from the loaded document.
count_services(compose_data) ==
    IF ~truthy_value(compose_data) THEN Counted(0)
    ELSE IF compose_data.type = "int" THEN Raise("TypeError")
    ELSE IF ~compose_data.has_services THEN Counted(0)
    ELSE IF compose_data.type # "dict" THEN Raise("TypeError")
    ELSE IF compose_data.services \in {"none", "int"} THEN Raise("TypeError")
    ELSE Counted(compose_data.entries)

\* The try block: open, yaml.safe_load, count.
load_and_count(file) ==
    IF file.kind = "unreadable" THEN Raise("OSError")
    ELSE IF file.kind = "binary" THEN Raise("UnicodeDecodeError")
    ELSE IF file.kind = "malformed" THEN Raise("YAMLError")
    ELSE count_services(file.doc)

\* The count _on_compose_file_changed computes for the text of the compose
\* field and the file it names.
count_compose_services(text, file) ==
    LET compose_path_str == strip(text)
    IN  IF compose_path_str = <<>> THEN Counted(0)
        ELSE IF resolve_path(compose_path_str) = <<>> \/ file.kind = "missing"
        THEN Counted(0)
        ELSE load_and_count(file)

\* _on_compose_file_changed, the trace on the compose field: the count is
\* set and the warning updated, unless an exception leaves the handler.
on_compose_file_changed(text, file) ==
    /\ LET ret == count_compose_services(text, file)
       IN  IF ret.raised = ""
           THEN /\ compose_service_count' = ret.count
                /\ docker_images_warning_label' =
                      update_images_warning(ret.count, form_images)
           ELSE UNCHANGED <<compose_service_count, docker_images_warning_label>>
    /\ UNCHANGED <<cancel_button, presses, last_signal, last_submit,
                   form_images, docker_images_listbox, added,
                   docker_files_listbox>>
    /\ UNCHANGED output_queue
    /\ UNCHANGED execVars
    /\ UNCHANGED jobVars

\* The user types in the compose field, or browses for a file.
EditCompose ==
    /\ \E text \in ComposePaths, file \in ComposeFiles :
          on_compose_file_changed(text, file)
    /\ UNCHANGED call

\* A press of "Create Docker Artifact" with the image list as it stands.
SubmitCompose ==
    /\ \A j \in Jobs : pc[j] = "idle"
    /\ create_docker_container_artifact(
          [OneImage EXCEPT !.docker_images = form_images], FreeSlots)

\* The form with a user who edits the compose field and the image list, then
\* presses the button; what the worker does is in Spec.
NextCompose ==
    \/ Editable /\ add_docker_image_from_file
    \/ Editable /\ add_docker_image_from_docker
    \/ Editable /\ remove_docker_image
    \/ EditCompose
    \/ SubmitCompose

SpecCompose == Init /\ [][NextCompose]_vars

\* One change of the compose field of a form that has counted a file with
\* one service, for every text and every file.
InitCount ==
    /\ Constructed
    /\ \E text \in ComposePaths, file \in ComposeFiles :
          call = [fn |-> "_on_compose_file_changed",
                  args |-> [text |-> text, file |-> file],
                  ret |-> Counted(1), returned |-> FALSE]

CallCount ==
    /\ ~call.returned
    /\ on_compose_file_changed(call.args.text, call.args.file)
    /\ call' = [call EXCEPT !.ret = count_compose_services(call.args.text,
                                                            call.args.file),
                            !.returned = TRUE]

SpecCount == InitCount /\ [][CallCount]_vars

\* ------------------------------------------------------ the same build again
\* The forms built twice: tarballs only, or one store image, with or
\* without an extra file.
TwiceImages ==
    {images \in SeqsUpTo({[type |-> "file", source |-> f] : f \in FileSources},
                         MaxImages) : images # <<>>}
    \cup {<<[type |-> "docker", source |-> <<"b">>]>>}
TwiceFiles == {files \in ExtraLists : Len(files) <= 1}

\* A press of "Create Docker Artifact" while nothing runs: the first with
\* any of the forms, the second with the form left as it was.
SubmitTwice ==
    /\ \A j \in Jobs : pc[j] \in {"idle", "done"}
    /\ pc[2] = "idle"
    /\ IF \A j \in Jobs : pc[j] = "idle"
       THEN \E images \in TwiceImages, files \in TwiceFiles :
               create_docker_container_artifact(
                   [OneImage EXCEPT !.docker_images = images,
                                    !.additional_files = files],
                   UnusedSlots)
       ELSE create_docker_container_artifact(
                [OneImage EXCEPT !.docker_images = docker_images[1],
                                 !.additional_files = params[1].additional_files],
                UnusedSlots)

\* The program with a user who builds the same form twice and leaves the
\* cancel button alone; the queue is polled between the builds.
NextTwice ==
    \/ SubmitTwice
    \/ (\A j \in Jobs : pc[j] \in {"idle", "done"}) /\ process_output_queue
    \/ \E j \in Jobs : Build(j)
    \/ \E j \in Jobs, k \in ProcKinds : ProcessExits(j, k)

SpecTwice == Init /\ [][NextTwice]_vars

\* ------------------------------------------ the form edited during a build
\* browse_file / browse_directory with list_insert: the path chosen is
\* appended to the extra-file list unless the list holds it already.
add_docker_file ==
    /\ Len(docker_files_listbox) < MaxExtras
    /\ \E filename \in ExtraFiles :
          docker_files_listbox' =
             IF \E i \in 1..Len(docker_files_listbox) :
                   docker_files_listbox[i].path = filename.path
             THEN docker_files_listbox
             ELSE Append(docker_files_listbox, filename)
    /\ UNCHANGED <<cancel_button, presses, last_signal, last_submit, call,
                   form_images, docker_images_listbox, added,
                   compose_service_count, docker_images_warning_label>>
    /\ UNCHANGED output_queue
    /\ UNCHANGED execVars
    /\ UNCHANGED jobVars

\* remove_docker_file for a selected item of the extra-file list.
remove_docker_file ==
    /\ \E selection \in 1..Len(docker_files_listbox) :
          docker_files_listbox' = Delete(docker_files_listbox, selection)
    /\ UNCHANGED <<cancel_button, presses, last_signal, last_submit, call,
                   form_images, docker_images_listbox, added,
                   compose_service_count, docker_images_warning_label>>
    /\ UNCHANGED output_queue
    /\ UNCHANGED execVars
    /\ UNCHANGED jobVars

\* The forms the build starts from: a tarball or a store image or both,
\* with or without an extra file.
SnapshotImages ==
    {images \in SeqsUpTo({[type |-> "file", source |-> <<"d", "/", "c">>],
                          [type |-> "docker", source |-> <<"a", "/", "b">>]},
                         MaxImages) : images # <<>>}
SnapshotFiles == {<<>>, <<[path |-> <<"e">>, exists |-> TRUE]>>}

InitSnapshot ==
    /\ \E images \in SnapshotImages, files \in SnapshotFiles :
          ConstructedWith(images, files)
    /\ call = NoCall

\* The press of "Create Docker Artifact" with the lists as they stand.
SubmitSnapshot ==
    /\ \A j \in Jobs : pc[j] = "idle"
    /\ create_docker_container_artifact(
          [OneImage EXCEPT !.docker_images = form_images,
                           !.additional_files = docker_files_listbox],
          FreeSlots)

\* A build runs and the form still holds what the build was started with.
Unedited ==
    \E j \in Jobs :
        /\ pc[j] \notin {"idle", "done"}
        /\ form_images = docker_images[j]
        /\ docker_files_listbox = params[j].additional_files

\* The program with a user who starts one build of a filled-in form and,
\* while it runs, makes one change to the image list or the extra-file
\* list; the queue is polled once the build has ended.
NextSnapshot ==
    \/ SubmitSnapshot
    \/ Unedited /\ add_docker_image_from_file
    \/ Unedited /\ add_docker_image_from_docker
    \/ Unedited /\ remove_docker_image
    \/ Unedited /\ add_docker_file
    \/ Unedited /\ remove_docker_file
    \/ (\A j \in Jobs : pc[j] \in {"idle", "done"}) /\ process_output_queue
    \/ \E j \in Jobs : Build(j)
    \/ \E j \in Jobs, k \in ProcKinds : ProcessExits(j, k)

SpecSnapshot == InitSnapshot /\ [][NextSnapshot]_vars

\* ------------------------------------------------- the path of a listed image
\* The images a form can list: a tarball by the absolute path the file
\* dialog gives, whose file name may hold blanks, and a store image by its
\* name, with or without a registry and a tag.
TarballPaths ==
    {<<"/">> \o s : s \in {t \in SeqsUpTo({"c", " "}, 2) : t # <<>>}}
StoreNames == {n \in SeqsUpTo({"a", "/", ":"}, 3) : n # <<>>}
PathImages ==
    {[type |-> "file", source |-> f] : f \in TarballPaths}
    \cup {[type |-> "docker", source |-> n] : n \in StoreNames}

\* What one turn of the loop of _handle_docker_images writes into the
\* temporary directory: the export of a store image, nothing for a tarball.
workspace_writes(img, workspace_dir) ==
    IF img.type = "file" THEN {} ELSE {image_path(img, workspace_dir)}

InitPath ==
    /\ Constructed
    /\ \E img \in PathImages, j \in Jobs :
          call = [fn |-> "_handle_docker_images",
                  args |-> [img |-> img, temp_dir |-> TempDir(j)],
                  ret |-> <<>>, returned |-> FALSE]

CallPath ==
    Return("_handle_docker_images",
           [path |-> image_path(call.args.img, call.args.temp_dir),
            writes |-> workspace_writes(call.args.img, call.args.temp_dir)])

SpecPath == InitPath /\ [][CallPath]_vars

\* ------------------------------------------------ builds under fair scheduling
\* The program with a user who starts builds one after the other and asks for
\* a cancel, graceful or forced, at will; the queue is polled between builds.
\* The operating system schedules every worker thread that can take a step,
\* and every external process that runs ends.
CancelAtWill ==
    /\ presses < MaxCancels
    /\ \E force \in BOOLEAN : cancel_command(force)
    /\ UNCHANGED <<cancel_button, last_submit, form_images,
                   docker_images_listbox, added,
                   compose_service_count, docker_images_warning_label,
                   docker_files_listbox,
                   call, pc, docker_images, unlocked_access,
                   params, index, archive, temp_dir, workspace, image_paths,
                   process, artifact>>

PollBetweenBuilds ==
    /\ \A j \in Jobs : pc[j] \in {"idle", "done"}
    /\ process_output_queue

\* The forms of these builds: a registry image alone, and a tarball followed
\* by a registry image; the compose file there or not.
LiveImages ==
    {<<[type |-> "docker", source |-> <<"i">>]>>,
     <<[type |-> "file", source |-> <<"i">>],
       [type |-> "docker", source |-> <<"i">>]>>}
LiveRequests ==
    {Form(<<"a">>, <<"a">>, <<"a">>, <<"a">>, l, exists) :
        l \in LiveImages, exists \in BOOLEAN}

SubmitLive ==
    /\ \A j \in Jobs : pc[j] \in {"idle", "done"}
    /\ \E req \in LiveRequests : create_docker_container_artifact(req, FreeSlots)

NextLive ==
    \/ SubmitLive
    \/ CancelAtWill
    \/ PollBetweenBuilds
    \/ \E j \in Jobs : Build(j)
    \/ \E j \in Jobs, k \in ProcKinds : ProcessExits(j, k)

Fairness ==
    /\ \A j \in Jobs : WF_vars(Build(j))
    /\ \A j \in Jobs, k \in ProcKinds : WF_vars(ProcessExits(j, k))

SpecLive == Init /\ [][NextLive]_vars /\ Fairness

\* ------------------------------------------------ the pipes of an image export
\* _export_docker_image alone, from the two Popen calls to its return, with
\* the save process and the compression filter as separate processes and
\* pipes that hold MaxPipe blocks. The save process has to_stdout blocks to
\* write to the filter and to_stderr blocks to write to its error pipe, in
\* any order; the worker reads the error pipe only after communicate().
MaxPipe == 2
Amounts == 0..(MaxPipe + 1)

Pipes(to_stdout, to_stderr) ==
    [to_stdout |-> to_stdout, to_stderr |-> to_stderr,
     docker_stdout |-> 0, docker_stderr |-> 0, gzip_stdout |-> 0,
     docker_process |-> "running", gzip_process |-> "running",
     at |-> "communicate"]

InitPipes ==
    /\ Constructed
    /\ \E to_stdout \in Amounts, to_stderr \in Amounts :
          call = [fn |-> "_export_docker_image",
                  args |-> [to_stdout |-> to_stdout, to_stderr |-> to_stderr],
                  ret |-> Pipes(to_stdout, to_stderr), returned |-> FALSE]

PipeStep(p) ==
    /\ call' = [call EXCEPT !.ret = p, !.returned = (p.at = "returned")]
    /\ UNCHANGED <<current_process, process_lock, is_running, cancel_requested,
                   output_queue, cancel_button, presses, last_signal,
                   last_submit, form_images, docker_images_listbox, added,
                   compose_service_count, docker_images_warning_label,
                   docker_files_listbox>>
    /\ UNCHANGED jobVars

\* docker save writes a block to its stdout: the pipe to the filter has room.
docker_writes_stdout ==
    LET p == call.ret IN
    /\ p.docker_process = "running"
    /\ p.to_stdout > 0
    /\ p.docker_stdout < MaxPipe
    /\ PipeStep([p EXCEPT !.to_stdout = @ - 1, !.docker_stdout = @ + 1])

\* docker save writes a block to its stderr: the pipe has room.
docker_writes_stderr ==
    LET p == call.ret IN
    /\ p.docker_process = "running"
    /\ p.to_stderr > 0
    /\ p.docker_stderr < MaxPipe
    /\ PipeStep([p EXCEPT !.to_stderr = @ - 1, !.docker_stderr = @ + 1])

\* docker save has written everything: it exits, which closes its stdout.
docker_exits ==
    LET p == call.ret IN
    /\ p.docker_process = "running"
    /\ p.to_stdout = 0
    /\ p.to_stderr = 0
    /\ PipeStep([p EXCEPT !.docker_process = "exited"])

\* gzip reads a block from its stdin and writes it, compressed, to its
\* stdout: that pipe has room.
gzip_filters ==
    LET p == call.ret IN
    /\ p.gzip_process = "running"
    /\ p.docker_stdout > 0
    /\ p.gzip_stdout < MaxPipe
    /\ PipeStep([p EXCEPT !.docker_stdout = @ - 1, !.gzip_stdout = @ + 1])

\* gzip reads the end of its stdin, which every writer has closed, and exits.
gzip_exits ==
    LET p == call.ret IN
    /\ p.gzip_process = "running"
    /\ p.docker_stdout = 0
    /\ p.docker_process = "exited"
    /\ PipeStep([p EXCEPT !.gzip_process = "exited"])

\* gzip_process.communicate(): a block is read from the filter's stdout.
communicate_reads ==
    LET p == call.ret IN
    /\ p.at = "communicate"
    /\ p.gzip_stdout > 0
    /\ PipeStep([p EXCEPT !.gzip_stdout = @ - 1])

\* gzip_process.communicate() returns: the pipe is at its end and the filter
\* has exited.
communicate_returns ==
    LET p == call.ret IN
    /\ p.at = "communicate"
    /\ p.gzip_stdout = 0
    /\ p.gzip_process = "exited"
    /\ PipeStep([p EXCEPT !.at = "poll"])

\* `if docker_process.poll() is None: terminate(); wait()`.
terminate_docker_process ==
    LET p == call.ret IN
    /\ p.at = "poll"
    /\ PipeStep([p EXCEPT !.docker_process = "exited", !.at = "read"])

\* docker_process.stderr.read() to the end, close(), wait(), and the return.
read_docker_stderr ==
    LET p == call.ret IN
    /\ p.at = "read"
    /\ p.docker_process = "exited"
    /\ PipeStep([p EXCEPT !.docker_stderr = 0, !.at = "returned"])

NextPipes ==
    \/ docker_writes_stdout
    \/ docker_writes_stderr
    \/ docker_exits
    \/ gzip_filters
    \/ gzip_exits
    \/ communicate_reads
    \/ communicate_returns
    \/ terminate_docker_process
    \/ read_docker_stderr

SpecPipes == InitPipes /\ [][NextPipes]_vars

\* ================================================================ claims
SuccessStatus == Ev("status", "Docker artifact created successfully")
ExportFailedStatus == Ev("status", "Docker export failed")
ImageNotFound == Ev("output", "Error: Image file not found")
CancelledOutput == Ev("output", "Operation cancelled by user")
CleanupWarning == Ev("output", "Warning: Could not clean up temp dir")
Ended(j) == pc[j] = "done"
ToolInvoked(j) == procs[j]["tool"].st # "none"

\* C1: in a build whose save process has exited non-zero, the artifact tool
\* is never invoked, the success status is never emitted, no output file is
\* written and, once the worker has ended, the workspace is gone (unless its
\* removal failed).
C1_SaveFailureFailsBuild ==
    \A j \in Jobs :
        (procs[j]["docker"].st = "exited" /\ procs[j]["docker"].rc # 0) =>
            /\ ~ToolInvoked(j)
            /\ ~Has(emitted[j], SuccessStatus)
            /\ ~artifact[j]
            /\ (Ended(j) /\ ~Has(emitted[j], CleanupWarning)) => ~workspace[j]

\* C2: _export_docker_image returns failure when the save process exits
\* non-zero, when the compression filter exits non-zero and when the
\* compressed output is empty; it returns success only when both exit codes
\* are 0 and the output is not empty.
C2_ExportResult ==
    call.returned =>
        /\ (\/ call.args.docker_returncode # 0
            \/ call.args.gzip_returncode # 0
            \/ call.args.size = 0) => ~call.ret.success
        /\ call.ret.success =>
              /\ call.args.docker_returncode = 0
              /\ call.args.gzip_returncode = 0
              /\ call.args.size # 0

\* C3: once the acquisition of a listed image has reported failure (tarball
\* missing, or export unsuccessful) the build is on its way out: no further
\* image is being acquired, no manifest and no tarball has been produced, the
\* artifact tool has not been invoked and no success has been reported.
AcquisitionFailed(j) ==
    Has(emitted[j], ImageNotFound) \/ Has(emitted[j], ExportFailedStatus)

C3_ImageFailureAborts ==
    \A j \in Jobs :
        AcquisitionFailed(j) =>
            /\ pc[j] \in {"finish", "finally", "done"}
            /\ Len(image_paths[j]) < Len(docker_images[j])
            /\ procs[j]["gzip"].st # "running"
            /\ ~Has(emitted[j], Ev("output", "Generating index"))
            /\ ~Has(emitted[j], Ev("output", "Creating tarball"))
            /\ ~ToolInvoked(j)
            /\ ~artifact[j]
            /\ ~Has(emitted[j], SuccessStatus)

\* C3 witness: a build of two images has ended after the first was acquired
\* and the second failed.
C3_Witness ==
    \E j \in Jobs :
        /\ Ended(j)
        /\ AcquisitionFailed(j)
        /\ Len(docker_images[j]) = 2
        /\ Len(image_paths[j]) = 1

\* C4: after a cancel request has been accepted while the export process of
\* a build was registered, that build does not invoke the artifact tool and
\* no artifact is written.
C4_CancelInExportStopsBuild ==
    \A j \in Jobs : cancel_in_export[j] => (~ToolInvoked(j) /\ ~artifact[j])

\* C5: a cancellation check made by a build after cancel_command was called
\* during that build finds the cancel: the build goes to its end without
\* starting another step and reports the cancellation.
CheckPcs == {"check0", "check2", "step3", "step4", "check5"}

C5_CancelSeenByNextCheck ==
    [][\A j \in Jobs :
          (cancel_issued[j] /\ pc[j] \in CheckPcs /\ pc'[j] # pc[j]) =>
              (pc'[j] = "finish" /\ Has(emitted'[j], CancelledOutput))]_vars

\* C6: a press of the cancel button while the registered process runs sends
\* SIGTERM, sets cancel_requested and puts the cancel_requested event when it
\* is not forced and no cancel is pending; when it is forced or a cancel is
\* pending it sends SIGKILL, which ends the process.
C6_TerminateThenKill ==
    [][LET h == current_process
           force == cancel_button.text = "Force Cancel"
       IN  (/\ presses' = presses + 1
            /\ h # None
            /\ procs[h.job][h.kind].st = "running") =>
               IF ~force /\ ~cancel_requested
               THEN /\ last_signal' = SIGTERM
                    /\ cancel_requested'
                    /\ output_queue' = Append(output_queue, cancel_requested_ev)
                    /\ procs'[h.job][h.kind] \in {Running, Exited(-SIGTERM)}
               ELSE /\ last_signal' = SIGKILL
                    /\ procs'[h.job][h.kind] = Exited(-SIGKILL)]_vars

\* C6 witness: the cancel button was pressed twice during an export; the
\* first press asked for a graceful stop and the second killed the filter.
C6_Witness ==
    \E j \in Jobs :
        /\ presses = 2
        /\ last_signal = SIGKILL
        /\ Has(emitted[j], cancel_requested_ev)
        /\ procs[j]["gzip"] = Exited(-SIGKILL)

\* C7: a build whose worker has ended has put exactly one command_finished
\* event, and a build never has put more than one.
C7_OneFinishedEvent ==
    \A j \in Jobs :
        docker_images[j] # <<>> =>
            /\ Count(emitted[j], command_finished) <= 1
            /\ Ended(j) => Count(emitted[j], command_finished) = 1

\* C8: the step that ends a build's worker leaves no workspace behind, or it
\* has logged the warning that the removal failed; that step puts no status
\* and no command_finished event.
RECURSIVE Outcome(_)
Outcome(evs) ==
    IF evs = <<>> THEN <<>>
    ELSE IF Head(evs)[1] \in {"status", "command_finished"}
         THEN <<Head(evs)>> \o Outcome(Tail(evs))
         ELSE Outcome(Tail(evs))

C8_WorkspaceRemoved ==
    [][\A j \in Jobs :
          (pc[j] \in BuildPcs /\ pc'[j] = "done") =>
              /\ ~workspace'[j] \/ emitted'[j][Len(emitted'[j])] = CleanupWarning
              /\ Outcome(emitted'[j]) = Outcome(emitted[j])]_vars

\* C8 witness: a build that was cancelled has ended and the workspace it had
\* created is gone.
C8_Witness ==
    \E j \in Jobs :
        /\ Ended(j)
        /\ temp_dir[j]
        /\ ~workspace[j]
        /\ Has(emitted[j], CancelledOutput)

\* C9: at most one build or command is in flight on the executor.
InFlight == {j \in Jobs : pc[j] \notin {"idle", "done"}}

C9_OneInFlight == Cardinality(InFlight) <= 1

\* C10: a press of "Create Docker Artifact" on a deficient form is turned
\* down and changes nothing: no worker, no workspace, no event, the executor
\* as it was.
C10_DeficientRejected ==
    [][(last_submit' # last_submit /\ last_submit'.invalid) =>
          /\ last_submit'.outcome = "rejected"
          /\ UNCHANGED <<current_process, process_lock, is_running,
                         cancel_requested, output_queue, cancel_button,
                         presses, last_signal>>
          /\ UNCHANGED jobVars]_vars

\* C10 witness: a deficient form was turned down while an event of an
\* earlier build was still in the queue.
C10_Witness ==
    /\ last_submit = [invalid |-> TRUE, outcome |-> "rejected"]
    /\ output_queue # <<>>

\* C11: a press of "Create Docker Artifact" with an artifact name that, once
\* stripped, holds a character outside [A-Za-z0-9._] starts no worker (and so
\* creates no workspace), in either tab.
C11_ForbiddenNameRejected ==
    (call.returned /\ re_search_forbidden(strip(call.args.artifact_name)))
        => ~call.ret.started

\* C12: a press that starts a worker has an application name made only of
\* characters in [A-Za-z0-9._].
C12_AppNameSafe ==
    (call.returned /\ call.fn = "create_docker_container_artifact"
        /\ call.ret.started)
        => ~re_search_forbidden(strip(call.args.app_name))

\* The newline-terminated lines of a text; the text after the last newline
\* is not a line.
RECURSIVE TerminatedLines(_, _)
TerminatedLines(text, line) ==
    IF text = <<>> THEN <<>>
    ELSE IF Head(text) = NL THEN <<line>> \o TerminatedLines(Tail(text), <<>>)
    ELSE TerminatedLines(Tail(text), Append(line, Head(text)))

EndsWithNewline(text) == text # <<>> /\ text[Len(text)] = NL

\* C13: _generate_index_contents returns an inner manifest of exactly N+1
\* newline-terminated lines, the compose file name then the N image file
\* names in the order given, and an outer manifest that is the one line
\* "<app_name>/index".
C13_IndexContents ==
    call.returned =>
        LET N == Len(call.args.image_paths)
            inner == TerminatedLines(call.ret.inner, <<>>)
            outer == TerminatedLines(call.ret.outer, <<>>)
        IN  /\ EndsWithNewline(call.ret.inner)
            /\ Len(inner) = N + 1
            /\ inner[1] = name(call.args.compose_file)
            /\ \A i \in 1..N : inner[i + 1] = name(call.args.image_paths[i].path)
            /\ EndsWithNewline(call.ret.outer)
            /\ outer = <<call.args.app_name \o <<"/", "i", "n", "d", "e", "x">> >>

\* C13 witness: the manifest of two images whose file names differ, given
\* with the later name (in alphabetical order) first.
C13_Witness ==
    /\ call.returned
    /\ Len(call.args.image_paths) = 2
    /\ call.args.image_paths[1].path = <<"d", "/", "c", ".", "y">>
    /\ call.args.image_paths[2].path = <<"b">>
    /\ call.args.compose_file = <<"d", "/", "b">>

\* The (type, source) pairs of a list of add operations.
Images(adds) ==
    [i \in 1..Len(adds) |-> [type |-> adds[i].type, source |-> adds[i].source]]

\* C14: the displayed list and the internal list are, item by item, the add
\* operations not removed, in the order they were made; a build takes its
\* images from them in that order, and the lines of its inner manifest after
\* the first are the file names of those images in that order.
C14_ManifestInAddOrder ==
    LET survivors == added.surviving
        N == Len(survivors)
    IN  /\ Len(docker_images_listbox) = Len(form_images)
        /\ Len(form_images) = N
        /\ \A i \in 1..N :
              /\ docker_images_listbox[i].text = form_images[i].source
              /\ docker_images_listbox[i].op = survivors[i].op
        /\ form_images = Images(survivors)
        /\ \A j \in Jobs :
              /\ pc[j] # "idle" => docker_images[j] = Images(survivors)
              /\ index[j] # NoIndex =>
                    LET lines == TerminatedLines(index[j].inner, <<>>) IN
                    /\ Len(lines) = N + 1
                    /\ \A i \in 1..N :
                          lines[i + 1] = name(image_path(survivors[i], TempDir(j)))

\* C14 witness: a manifest was generated for a list left by three adds and
\* one removal: the tarball d/c, added second, then the store image b, added
\* third, whose file name sorts first.
C14_Witness ==
    \E j \in Jobs :
        /\ index[j] # NoIndex
        /\ added.count = 3
        /\ added.surviving =
              <<[op |-> 2, type |-> "file", source |-> <<"d", "/", "c">>],
                [op |-> 3, type |-> "docker", source |-> <<"b">>]>>

\* The members of a tarball that have a given name.
Named(members, arcname) ==
    {i \in 1..Len(members) : members[i].arcname = arcname}

IndexName == <<"i", "n", "d", "e", "x">>

\* C15: the archive written for N listed images has exactly one member
\* "<app_name>/<file name>" for each image, exactly one for the compose file,
\* exactly one "<app_name>/index", of N+1 lines, and exactly one "index", of
\* one line.
C15_ArchiveContents ==
    \A j \in Jobs :
        archive[j] # <<>> =>
            LET N == Len(docker_images[j])
                app_name == params[j].app_name
                inner == Named(archive[j], app_name \o <<"/">> \o IndexName)
                outer == Named(archive[j], IndexName)
            IN  /\ N >= 1
                /\ \A i \in 1..N :
                      Cardinality(Named(archive[j],
                          InApp(app_name, image_path(docker_images[j][i],
                                                      TempDir(j))))) = 1
                /\ Cardinality(Named(archive[j],
                       InApp(app_name, params[j].compose_file))) = 1
                /\ Cardinality(inner) = 1
                /\ \A i \in inner :
                      Len(TerminatedLines(archive[j][i].content, <<>>)) = N + 1
                /\ Cardinality(outer) = 1
                /\ \A i \in outer :
                      Len(TerminatedLines(archive[j][i].content, <<>>)) = 1

\* The listed extra files that are not there, and the warning about one.
Missing(j) ==
    {i \in 1..Len(params[j].additional_files) :
        ~present(params[j].additional_files[i])}

SkipWarning(f) ==
    EvAbout("output", "Warning: File not found, skipping", f.path)

\* A failure condition other than a missing extra file has been found in the
\* build: a missing compose file or tarball, a failed export, a save process
\* or compression filter that exited non-zero, a tarball that could not be
\* written, an artifact tool that exited non-zero.
FailureFound(j) ==
    \/ Has(emitted[j], Ev("output", "Error: Compose file not found"))
    \/ AcquisitionFailed(j)
    \/ \E k \in {"docker", "gzip", "tool"} :
          procs[j][k].st = "exited" /\ procs[j][k].rc # 0
    \/ Has(emitted[j], Ev("output", "Error creating tarball"))

\* C16: step 3 of a build that nobody cancels puts a warning naming every
\* listed extra file that is not there and goes on to step 4, changing
\* nothing else; the manifests are those of the images acquired; the archive
\* written is member for member the one of the same request without those
\* files and has no member made from them; and once any other failure
\* condition has been found and its step is over, the build is on its way
\* out.
C16_MissingExtraSkipped ==
    [][\A j \in Jobs :
          LET files == params[j].additional_files
              p == [params[j] EXCEPT !.additional_files = existing(@)]
          IN  /\ (pc[j] = "step3" /\ pc'[j] # pc[j]) =>
                    /\ pc'[j] = "step4"
                    /\ \A i \in Missing(j) :
                          Has(emitted'[j], SkipWarning(files[i]))
                    /\ Outcome(emitted'[j]) = Outcome(emitted[j])
                    /\ UNCHANGED <<image_paths, index, archive, procs,
                                   artifact, workspace>>
              /\ (pc[j] = "step4" /\ pc'[j] # pc[j]) =>
                    index'[j] = generate_index_contents(
                                    p.compose_file, resolved(image_paths[j], TempDir(j)),
                                    p.app_name)
              /\ (pc[j] = "tarball" /\ pc'[j] = "check5") =>
                    /\ archive'[j] = tar_members(p, resolved(image_paths[j], TempDir(j)),
                                                 index[j].inner, index[j].outer)
                    /\ \A i \in Missing(j) :
                          ~\E m \in 1..Len(archive'[j]) :
                              /\ archive'[j][m].of = "file"
                              /\ archive'[j][m].arcname =
                                    InApp(p.app_name, resolve_path(files[i].path))
              /\ (FailureFound(j)' /\ pc'[j] \notin {"export_wait", "tool_wait"})
                    => pc'[j] \in {"finish", "except", "finally", "done"}]_vars

\* C17: outside a call of _export_docker_image (the worker is not waiting in
\* one), neither the save process nor the compression filter of the build
\* is running.
C17_NoExportProcessLeft ==
    \A j \in Jobs :
        pc[j] # "export_wait" =>
            /\ procs[j]["docker"].st # "running"
            /\ procs[j]["gzip"].st # "running"

FailedStatus == Ev("status", "Command failed with code")

\* C18: the artifact-tool step of either tab reports an exit of the tool by
\* SIGTERM or SIGKILL as "Operation cancelled by user", with no "Command
\* failed with code" status and no success; it reports any other non-zero
\* exit as that failure status and no success, and exit code 0 as success.
C18_ToolExitReport ==
    call.returned =>
        LET returncode == call.args.returncode
            evs == call.ret.events
        IN  IF returncode \in {-SIGTERM, -SIGKILL}
            THEN /\ Has(evs, CancelledOutput)
                 /\ ~Has(evs, FailedStatus)
                 /\ ~Has(evs, SuccessStatus)
            ELSE IF returncode # 0
            THEN /\ Has(evs, FailedStatus)
                 /\ ~Has(evs, SuccessStatus)
                 /\ ~Has(evs, CancelledOutput)
            ELSE /\ Has(evs, SuccessStatus)
                 /\ ~Has(evs, FailedStatus)
                 /\ ~Has(evs, CancelledOutput)

\* C18 witness: the step of the multi-image tab has reported a tool killed by
\* SIGKILL.
C18_Witness ==
    /\ call.returned
    /\ call.fn = "_run_rdfm_artifact"
    /\ call.args.returncode = -SIGKILL
    /\ call.ret.events = <<CancelledOutput>>

\* C19: when the compression filter, the process registered for
\* cancellation, has been ended by SIGTERM or SIGKILL, _export_docker_image
\* returns (False, "Export cancelled"), whatever the exit code of the save
\* process.
C19_KilledFilterIsCancel ==
    (call.returned /\ call.args.gzip_returncode \in {-SIGTERM, -SIGKILL})
        => call.ret = Ret(FALSE, "Export cancelled")

\* The events that are a fallback success message.
Fallbacks(evs) ==
    {i \in 1..Len(evs) : Len(evs[i]) = 3 /\ evs[i][2] = "success_message"}

CompletedStatus == Ev("status", "Command completed successfully")

\* C20: for exit code 0 execute() puts the success status, puts the caller's
\* success message (once, and that text) exactly when stdout was empty and a
\* message was given, and calls the callback, when there is one, once with
\* the captured stdout; for any other exit code it puts the failure status
\* with that code, no success status, no success message, and makes no call.
C20_CommandReport ==
    call.returned =>
        LET a == call.args
            evs == call.ret.events
        IN  IF a.returncode = 0
            THEN /\ Count(evs, CompletedStatus) = 1
                 /\ ~\E i \in 1..Len(evs) :
                        Len(evs[i]) = 3 /\ evs[i][2] = "Command failed with code"
                 /\ IF a.full_stdout = <<>> /\ truthy(a.success_message)
                    THEN /\ Cardinality(Fallbacks(evs)) = 1
                         /\ \A i \in Fallbacks(evs) :
                               evs[i] = EvAbout("output", "success_message",
                                                a.success_message.text)
                    ELSE Fallbacks(evs) = {}
                 /\ call.ret.called =
                       IF a.callback = "none" THEN <<>> ELSE <<a.full_stdout>>
            ELSE /\ Count(evs, EvAbout("status", "Command failed with code",
                                       a.returncode)) = 1
                 /\ ~Has(evs, CompletedStatus)
                 /\ Fallbacks(evs) = {}
                 /\ call.ret.called = <<>>

\* C20 witness: a command that wrote nothing has ended with 0; the message
\* given was put and the callback was called with the empty text.
C20_Witness ==
    /\ call.returned
    /\ call.fn = "run_artifact_command"
    /\ call.args.returncode = 0
    /\ call.args.full_stdout = <<>>
    /\ call.args.callback = "returns"
    /\ Fallbacks(call.ret.events) # {}
    /\ call.ret.called = <<<<>>>>

NotFoundOutput == Ev("output", "Error: Command 'rdfm-artifact' not found.")
NotFoundStatus == Ev("status", "Command not found")

\* The events of a job that are a "Command failed with code N" status.
FailedWithCode(evs) ==
    {i \in 1..Len(evs) :
        Len(evs[i]) = 3 /\ evs[i][2] = "Command failed with code"}

\* C21: when Popen raises FileNotFoundError in execute(), the `with` block
\* gives the lock back, and the step that handles the exception puts the
\* "not found" message, the "Command not found" status and command_finished,
\* in that order and nothing else, leaves is_running false, no process
\* registered and the lock free; the command has no "Command failed with
\* code N" status.
C21_CommandNotFound ==
    [][\A j \in Jobs :
          /\ (pc[j] = "cmd_locked" /\ pc'[j] = "cmd_notfound") =>
                process_lock' = Free
          /\ (pc[j] = "cmd_notfound" /\ pc'[j] # pc[j]) =>
                /\ pc'[j] = "done"
                /\ emitted'[j] = emitted[j] \o <<NotFoundOutput, NotFoundStatus,
                                                 command_finished>>
                /\ FailedWithCode(emitted'[j]) = {}
                /\ ~is_running'
                /\ current_process' = None
                /\ process_lock' = Free]_vars

\* C21 witness: a command whose tool was not found has ended, and its
\* command_finished event has been handled.
C21_Witness ==
    \E j \in Jobs :
        /\ pc[j] = "done"
        /\ Has(emitted[j], NotFoundStatus)
        /\ Count(emitted[j], command_finished) = 1
        /\ output_queue = <<>>
        /\ ~cancel_button.visible

\* The status-line events a job has put after its command_started event,
\* but for the "Trying to cancel..." line of a cancel request, which tells of
\* no outcome.
RECURSIVE StatusLines(_, _)
StatusLines(evs, started) ==
    IF evs = <<>> THEN <<>>
    ELSE IF Head(evs) = command_started THEN StatusLines(Tail(evs), TRUE)
    ELSE IF /\ started
            /\ Head(evs)[1] = "status"
            /\ Head(evs) # Ev("status", "Trying to cancel...")
    THEN <<Head(evs)>> \o StatusLines(Tail(evs), started)
    ELSE StatusLines(Tail(evs), started)

\* C22: a build whose worker has ended has put exactly one status-line event
\* after its command_started event.
C22_OneTerminalStatus ==
    \A j \in Jobs :
        (Ended(j) /\ docker_images[j] # <<>>) =>
            Len(StatusLines(emitted[j], FALSE)) = 1

\* The count the compose file stands for: the number of entries of a
\* top-level services collection, 0 for anything else.
ServicesOf(file) ==
    IF /\ file.kind = "document"
       /\ file.doc.type = "dict"
       /\ file.doc.services \in {"list", "dict"}
    THEN file.doc.entries
    ELSE 0

\* C23: a change of the compose field raises nothing and leaves as service
\* count the number of entries of the file's services collection, 0 when
\* the path is empty or the file has no such collection.
C23_ServiceCount ==
    call.returned =>
        /\ call.ret.raised = ""
        /\ compose_service_count =
              (IF strip(call.args.text) = <<>> THEN 0
               ELSE ServicesOf(call.args.file))

\* C24: the warning shows exactly when the service count is above 0 and is
\* not the number of listed images, and a press of the button with the
\* warning up and an image listed starts a build.
C24_MismatchWarning ==
    /\ [](docker_images_warning_label # NoWarning <=>
             (compose_service_count > 0
              /\ Len(form_images) # compose_service_count))
    /\ [][(/\ docker_images_warning_label # NoWarning
           /\ form_images # <<>>
           /\ (last_submit' # last_submit \/ pc' # pc))
          => last_submit'.outcome = "started"]_vars
C24_Witness ==
    /\ docker_images_warning_label # NoWarning
    /\ Len(form_images) > 0
    /\ added.count > Len(form_images)
    /\ last_submit.outcome = "started"

\* What of an archive outlives timestamps and ownership: the names of its
\* members in order, and for each the file read or the text written.
Contents(members) ==
    [i \in 1..Len(members) |->
        [arcname |-> members[i].arcname, path |-> members[i].path,
         content |-> members[i].content]]
TarballOnly(j) ==
    \A i \in 1..Len(docker_images[j]) : docker_images[j][i].type = "file"
SameRequest(j, k) ==
    /\ docker_images[j] = docker_images[k]
    /\ params[j] = params[k]

StepOf(at) ==
    CASE at \in {"step1"} -> 1
      [] at \in {"images", "export_wait", "check2"} -> 2
      [] at \in {"step3"} -> 3
      [] at \in {"step4"} -> 4
      [] at \in {"tarball", "check5"} -> 5
      [] at \in {"run_tool", "tool_wait"} -> 6
      [] at \in {"finish", "except", "finally", "done"} -> 7
      [] OTHER -> 0
AliveOf(j) == {k \in {"docker", "gzip", "tool"} : procs[j][k].st = "running"}
StepStarts == {"step1", "images", "step3", "step4", "tarball", "run_tool"}

\* C26: a build goes through its steps one after the other: the images are
\* resolved one by one in list order, the manifests are generated once all
\* are resolved, the tarball is written once the manifests exist, the tool
\* is started once the tarball is written; and at the start of a step at
\* most one export or tool process of the build is alive.
C26_StepsInOrder ==
    /\ [](\A j \in Jobs :
             pc[j] \in StepStarts => Cardinality(AliveOf(j)) <= 1)
    /\ [][\A j \in Jobs :
            (pc[j] \in BuildPcs /\ pc'[j] # pc[j]) =>
               /\ StepOf(pc'[j]) \in {StepOf(pc[j]), StepOf(pc[j]) + 1, 7}
               /\ \/ image_paths'[j] = image_paths[j]
                  \/ /\ pc[j] \in {"images", "export_wait"}
                     /\ Len(image_paths[j]) < Len(docker_images[j])
                     /\ image_paths'[j] =
                           Append(image_paths[j],
                                  docker_images[j][Len(image_paths[j]) + 1])
               /\ StepOf(pc'[j]) \in 3..6 => image_paths'[j] = docker_images[j]
               /\ index'[j] # index[j] => pc[j] = "step4"
               /\ archive'[j] # archive[j] =>
                     pc[j] = "tarball" /\ index[j] # NoIndex
               /\ StepOf(pc'[j]) \in 5..6 => index'[j] # NoIndex
               /\ (procs'[j]["tool"] # procs[j]["tool"] /\ pc[j] # "tool_wait")
                     => pc[j] = "run_tool" /\ archive[j] # <<>>]_vars
C26_Witness ==
    \E j \in Jobs :
        /\ pc[j] = "done" /\ artifact[j]
        /\ Len(docker_images[j]) = 2
        /\ docker_images[j][1].type = "docker"
        /\ image_paths[j] = docker_images[j]
        /\ archive[j] # <<>>

\* C27: no worker has read or written current_process or is_running
\* without holding process_lock.
C27_FieldsUnderLock ==
    \A j \in Jobs : ~unlocked_access[j]

\* C28: among the events of a command, no line read from its pipes comes
\* after a command_finished event.
C28_LinesBeforeFinished ==
    \A j \in Jobs :
        \A m, n \in 1..Len(emitted[j]) :
            (emitted[j][m] = command_finished /\ emitted[j][n] = OutputLine)
            => n < m

\* C29: whatever is done to the form's lists while a build runs, the build
\* keeps the lists it was started with: it resolves a prefix of its image
\* list, its manifest and its archive are those of its image list and its
\* extra files, and no change of the form changes its lists.
C29_BuildUsesSnapshot ==
    /\ [](\A j \in Jobs :
             pc[j] # "idle" =>
                /\ Len(image_paths[j]) <= Len(docker_images[j])
                /\ image_paths[j] =
                      SubSeq(docker_images[j], 1, Len(image_paths[j]))
                /\ index[j] # NoIndex =>
                      index[j] = generate_index_contents(
                                     params[j].compose_file,
                                     resolved(docker_images[j], TempDir(j)),
                                     params[j].app_name)
                /\ archive[j] # <<>> =>
                      archive[j] = tar_members(
                                       params[j],
                                       resolved(docker_images[j], TempDir(j)),
                                       index[j].inner, index[j].outer))
    /\ [][\A j \in Jobs :
            (/\ pc[j] \notin {"idle", "done"}
             /\ \/ form_images' # form_images
                \/ docker_files_listbox' # docker_files_listbox)
            => /\ docker_images'[j] = docker_images[j]
               /\ params'[j] = params[j]
               /\ image_paths'[j] = image_paths[j]]_vars
C29_Witness ==
    \E j \in Jobs :
        /\ pc[j] = "done" /\ artifact[j]
        /\ Len(docker_images[j]) = 2
        /\ Len(form_images) = 1
        /\ docker_files_listbox = params[j].additional_files
        /\ form_images # SubSeq(docker_images[j], 1, 1)
        /\ Len(archive[j]) = 5

\* A store image name with every "/" and ":" turned into "_".
Underscored(image_name) ==
    [i \in 1..Len(image_name) |->
        IF image_name[i] \in {"/", ":"} THEN "_" ELSE image_name[i]]

\* C30: a tarball resolves to the path it was listed with and nothing is
\* written into the temporary directory; a store image resolves to the file
\* in the temporary directory named after the image, "/" and ":" turned
\* into "_", with ".tar.gz" appended.
C30_ResolvedPath ==
    call.returned =>
        LET img == call.args.img IN
        IF img.type = "file"
        THEN /\ call.ret.path = img.source
             /\ call.ret.writes = {}
        ELSE /\ call.ret.path =
                   call.args.temp_dir \o <<"/">> \o Underscored(img.source)
                      \o <<".", "t", "a", "r", ".", "g", "z">>
             /\ call.ret.writes = {call.ret.path}

\* C31: once a graceful cancel has been accepted during the export of an
\* image of a build, no save or compression process is started for a later
\* image of that build.
GracefulCancelInExport(j) ==
    /\ pc[j] \in {"images", "export_wait"}
    /\ Has(emitted[j], cancel_requested_ev)

ExportStarts(j) ==
    /\ pc[j] = "images"
    /\ \/ procs'[j]["docker"].st = "running"
       \/ procs'[j]["gzip"].st = "running"

C31_NoExportAfterCancel ==
    [][\A j \in Jobs : GracefulCancelInExport(j) => ~ExportStarts(j)]_vars

\* C32: a build during which cancel_command was never called reads
\* cancel_requested as False at each of its cancellation checks, whatever
\* was cancelled before it and however the worker, the cancel handler and
\* the queue poll interleave.
C32_NoCancelFromEarlierRun ==
    [][\A j \in Jobs :
          (~cancel_issued[j] /\ pc[j] \in CheckPcs /\ pc'[j] # pc[j]) =>
              ~cancel_requested]_vars

\* C33: for builds that run one at a time, is_running is true from the
\* moment the worker has marked the build running until its final clean-up
\* and false after it, with no process registered then; and a process handle
\* is registered only while the step that registered it waits for that
\* process.
WaitPc(k) == IF k = "gzip" THEN "export_wait" ELSE "tool_wait"

RunningUntilCleanup ==
    \A j \in Jobs :
        /\ pc[j] \in BuildPcs \ {"start"} => is_running
        /\ (pc[j] = "done" /\ \A k \in Jobs : pc[k] \in {"idle", "done"}) =>
              (~is_running /\ current_process = None)

HandleWithinStep ==
    current_process # None =>
        pc[current_process.job] = WaitPc(current_process.kind)

C33_RunningAndHandle == RunningUntilCleanup /\ HandleWithinStep

\* C34: with run_artifact_command calls running side by side, the process a
\* worker reads from, waits on and reports is the one that worker launched.
OnlyCommands == \A k \in Jobs : params[k] = NoParams

C34_WorkerOwnsProcess ==
    OnlyCommands =>
        \A j \in Jobs : pc[j] = "cmd_wait" => process[j] = Handle(j, "cmd")

\* C35: every build that starts reaches its end, where command_finished has
\* been put, is_running is false, no process is registered and the workspace
\* is removed.
Cleared(j) ==
    /\ pc[j] = "done"
    /\ Has(emitted[j], command_finished)
    /\ ~is_running
    /\ current_process = None

C35_BuildFinishesClean ==
    \A j \in Jobs : (pc[j] = "start") ~> (Cleared(j) /\ ~workspace[j])

\* C35, amended: every build that starts reaches its end, where
\* command_finished has been put, is_running is false, no process is
\* registered and the workspace is removed or the warning that it could not
\* be removed has been put.
C35_BuildFinishes ==
    \A j \in Jobs :
        (pc[j] = "start") ~>
            /\ Cleared(j)
            /\ ~workspace[j] \/ emitted[j][Len(emitted[j])] = CleanupWarning

\* C35 witness: a build that was cancelled has ended, with the warning that
\* its workspace could not be removed.
C35_Witness ==
    \E j \in Jobs :
        /\ Cleared(j)
        /\ Has(emitted[j], cancel_requested_ev)
        /\ workspace[j]

\* C36: an image export that has not returned can take a step, whatever the
\* save process has to write to its stdout and to its stderr: no state of the
\* pipes blocks the save process, the filter and the worker for ever.
C36_ExportNeverBlocked ==
    (call.fn = "_export_docker_image" /\ ~call.returned) => ENABLED NextPipes

\* C37: in an archive that was written, no two members have the same name;
\* one member is named "<app_name>/index" and one "index", holding the two
\* generated manifests; and two different listed images have different
\* member names and different paths.
DistinctNames(members) ==
    \A m, n \in 1..Len(members) :
        m # n => members[m].arcname # members[n].arcname

ManifestsOnce(j) ==
    LET inner == Named(archive[j], params[j].app_name \o <<"/">> \o IndexName)
        outer == Named(archive[j], IndexName)
    IN  /\ Cardinality(inner) = 1
        /\ Cardinality(outer) = 1
        /\ \A i \in inner : archive[j][i].content = index[j].inner
        /\ \A i \in outer : archive[j][i].content = index[j].outer

ImagesApart(j) ==
    \A m, n \in 1..Len(docker_images[j]) :
        docker_images[j][m] # docker_images[j][n] =>
            LET pm == image_path(docker_images[j][m], TempDir(j))
                pn == image_path(docker_images[j][n], TempDir(j))
            IN  /\ pm # pn
                /\ InApp(params[j].app_name, pm) # InApp(params[j].app_name, pn)

C37_EntryNamesDistinct ==
    \A j \in Jobs :
        archive[j] # <<>> =>
            DistinctNames(archive[j]) /\ ManifestsOnce(j) /\ ImagesApart(j)

====
